---- MODULE Spec2Model ----
(***************************************************************************)
(* A model of debase's pattern language and symbol matcher: the pattern    *)
(* lexer, the pattern compiler, the pattern node tree, the late-bind       *)
(* replacers and the SymbolMatcher that owns them.                         *)
(*                                                                         *)
(* Strings are TLA+ strings; a character is a string of length one.  A     *)
(* pointer into the matcher's arena is an index into `nodes`.              *)
(***************************************************************************)
EXTENDS Integers, Sequences, FiniteSets, TLC

(***************************************************************************)
(* llvm::StringRef                                                         *)
(***************************************************************************)
CharAt(s, i) == SubSeq(s, i, i)

CharsOf(s) == {CharAt(s, i) : i \in 1..Len(s)}

UpperStr == "ABCDEFGHIJKLMNOPQRSTUVWXYZ"
LowerStr == "abcdefghijklmnopqrstuvwxyz"
DigitStr == "0123456789"
\* The characters the model knows, in ASCII order.
AsciiStr == "\t !$()*+-./0123456789:?@ABCDEFGHIJKLMNOPQRSTUVWXYZ[\\]^_abcdefghijklmnopqrstuvwxyz{}"

UpperSet == CharsOf(UpperStr)
LowerSet == CharsOf(LowerStr)
DigitSet == CharsOf(DigitStr)
SpaceSet == {" ", "\t"}

Ord == [c \in CharsOf(AsciiStr) |-> CHOOSE i \in 1..Len(AsciiStr) : CharAt(AsciiStr, i) = c]

ToLowerMap == [c \in UpperSet |->
                 CharAt(LowerStr, CHOOSE i \in 1..26 : CharAt(UpperStr, i) = c)]

isUpper(c) == c \in UpperSet
isLower(c) == c \in LowerSet
isDigit(c) == c \in DigitSet
isAlnum(c) == isUpper(c) \/ isLower(c) \/ isDigit(c)
isSpace(c) == c \in SpaceSet

toLower(c) == IF c \in UpperSet THEN ToLowerMap[c] ELSE c

RECURSIVE lower(_)
lower(s) == IF s = "" THEN "" ELSE toLower(CharAt(s, 1)) \o lower(Tail(s))

equals_insensitive(a, b) == lower(a) = lower(b)

starts_with(s, p) == Len(s) >= Len(p) /\ SubSeq(s, 1, Len(p)) = p
ends_with(s, p) == Len(s) >= Len(p) /\ SubSeq(s, Len(s) - Len(p) + 1, Len(s)) = p

drop_front(s, n) == SubSeq(s, n + 1, Len(s))
drop_back(s, n) == SubSeq(s, 1, Len(s) - n)

RECURSIVE ltrim(_)
ltrim(s) == IF s # "" /\ isSpace(CharAt(s, 1)) THEN ltrim(Tail(s)) ELSE s

RECURSIVE rtrim(_)
rtrim(s) == IF s # "" /\ isSpace(CharAt(s, Len(s))) THEN rtrim(drop_back(s, 1)) ELSE s

trim(s) == rtrim(ltrim(s))

\* StringRef::find: the first position of `sep` in `s`, 0 when absent.
find(s, sep) ==
  LET hits == {i \in 1..(Len(s) - Len(sep) + 1) : SubSeq(s, i, i + Len(sep) - 1) = sep}
  IN IF hits = {} THEN 0 ELSE CHOOSE i \in hits : \A j \in hits : i <= j

\* StringRef::rfind of one character, 0 when absent.
rfind(s, c) ==
  LET hits == {i \in 1..Len(s) : CharAt(s, i) = c}
  IN IF hits = {} THEN 0 ELSE CHOOSE i \in hits : \A j \in hits : i >= j

\* StringRef::split: around the first `sep`; (s, "") when there is none.
split(s, sep) ==
  LET i == find(s, sep)
  IN IF i = 0 THEN <<s, "">>
     ELSE <<SubSeq(s, 1, i - 1), SubSeq(s, i + Len(sep), Len(s))>>

count(s, c) == Cardinality({i \in 1..Len(s) : CharAt(s, i) = c})

(***************************************************************************)
(* driver/Character.hpp                                                    *)
(***************************************************************************)
isIdentifierChar(c) == isAlnum(c) \/ c = "_" \/ c = "$"

isIdentifier(s) == \A i \in 1..Len(s) : isIdentifierChar(CharAt(s, i))

identify(c) ==
  CASE c = "@" -> "KAnonymous"
    [] c = "." -> "KWildcard"
    [] c = "?" -> "KZeroOrOne"
    [] c = "*" -> "KKleene"
    [] c = "+" -> "KKleenePlus"
    [] c = "-" -> "KRange"
    [] c = "^" -> "KNot"
    [] c = "(" -> "KOpenParen"
    [] c = ")" -> "KCloseParen"
    [] c = "[" -> "KOpenBrace"
    [] c = "]" -> "KCloseBrace"
    [] c = "{" -> "KOpenCurly"
    [] c = "}" -> "KCloseCurly"
    [] c = "\\" -> "KEscape"
    [] OTHER -> IF isIdentifierChar(c) THEN "KIdentifier"
                ELSE IF isSpace(c) THEN "KWhitespace"
                ELSE "KUnsupported"

(***************************************************************************)
(* driver/FilePropertyCache.cpp, over llvm::sys::path                      *)
(***************************************************************************)
\* path::filename: the last component ("." after a trailing separator).
path_filename(p) ==
  LET i == rfind(p, "/")
  IN IF p = "" THEN ""
     ELSE IF i = 0 THEN p
     ELSE IF i = Len(p) THEN (IF Len(p) = 1 THEN "/" ELSE ".")
     ELSE SubSeq(p, i + 1, Len(p))

RECURSIVE strip_separators(_)
strip_separators(p) ==
  IF Len(p) > 1 /\ CharAt(p, Len(p)) = "/" THEN strip_separators(drop_back(p, 1)) ELSE p

\* path::parent_path: everything before the last component, "" when none.
path_parent_path(p) ==
  LET i == rfind(p, "/")
  IN IF i = 0 THEN ""
     ELSE IF i = Len(p) THEN strip_separators(p)
     ELSE strip_separators(SubSeq(p, 1, i))

\* path::extension: from the last dot of the filename, "" for "." and "..".
path_extension(p) ==
  LET f == path_filename(p)
      i == rfind(f, ".")
  IN IF i = 0 \/ f = "." \/ f = ".." THEN "" ELSE SubSeq(f, i, Len(f))

get_stem(filename) == split(path_filename(filename), ".")[1]

kStem == "stem"
kDir  == "dir"
kExt  == "ext"

GetFilePropertyKind(prop) ==
  CASE prop = ""    -> "FPKFile"
    [] prop = kStem -> "FPKStem"
    [] prop = kDir  -> "FPKDir"
    [] prop = kExt  -> "FPKExt"
    [] OTHER        -> "FPKUnknown"

\* Expected<StringRef>: [ok, val].
getPropertyRaw(filename, prop) ==
  LET K == GetFilePropertyKind(prop)
  IN CASE K = "FPKFile" -> [ok |-> TRUE, val |-> filename]
       [] K = "FPKStem" -> [ok |-> TRUE, val |-> get_stem(filename)]
       [] K = "FPKDir"  -> [ok |-> TRUE, val |-> path_parent_path(filename)]
       [] K = "FPKExt"  -> [ok |-> TRUE, val |-> path_extension(filename)]
       [] OTHER         -> [ok |-> FALSE, val |-> ""]

(***************************************************************************)
(* driver/PatternLex.hpp: Pattern::Token                                   *)
(***************************************************************************)
kMaxTrailing == 7

\* Token::New; `trailing` is a 3-bit field, `grouped` a 1-bit field.
Token(kind, data, grouped) ==
  [kind |-> kind, str |-> data, trailing |-> 0, grouped |-> grouped]

\* Expected<T> / Error of the lexer: st is "ok", "err" or "hang" (the loop
\* never ends).
LexOk(toks) == [st |-> "ok", toks |-> toks, err |-> ""]
LexErr(msg) == [st |-> "err", toks |-> <<>>, err |-> msg]
LexHang     == [st |-> "hang", toks |-> <<>>, err |-> ""]

\* No FilePropertyCache was handed to the lexer.
NoThis == [has |-> FALSE, filename |-> ""]
ThisOf(filename) == [has |-> TRUE, filename |-> filename]

(***************************************************************************)
(* driver/Pattern.cpp: static helpers                                      *)
(***************************************************************************)
IdentifyStandalone(S) ==
  CASE S = "@"  -> "KAnonymous"
    [] S = "**" -> "KGlob"
    [] OTHER    -> "KUnknown"

\* std::optional<StringRef>: [has, val].
GetValidReplacementMember(Member) ==
  CASE Member = ""                       -> [has |-> TRUE, val |-> ""]
    [] equals_insensitive(Member, "stem") -> [has |-> TRUE, val |-> kStem]
    [] equals_insensitive(Member, "dir")  -> [has |-> TRUE, val |-> kDir]
    [] equals_insensitive(Member, "ext")  -> [has |-> TRUE, val |-> kExt]
    [] OTHER                              -> [has |-> FALSE, val |-> ""]

\* An IsValidCaseRange that takes any two letters or digits.
IsValidCaseRange_Alnum(Start, End) == isAlnum(Start) /\ isAlnum(End)

IsValidCaseRange(Start, End) ==
  IF isUpper(Start) THEN isUpper(End)
  ELSE IF isDigit(Start) THEN isDigit(End)
  ELSE IF isLower(Start) THEN isLower(End)
  ELSE FALSE

IsValidPOSIXMetaclass(CC) ==
  CC \in {"upper", "lower", "alpha", "digit", "alnum", "xdigit"}

(***************************************************************************)
(* driver/Pattern.cpp: PatternLexer                                        *)
(***************************************************************************)
\* Expected<Token>: [ok, tok, err].
handleReplacementImpl(R0, This) ==
  LET R      == trim(R0)
      parts  == split(R, ".")
      Obj    == lower(rtrim(parts[1]))
      Tok    == CASE Obj \in {"this", "self"}  -> "KThis"
                  [] Obj \in {"file", "input"} -> "KLateBind"
                  [] OTHER                     -> "KUnknown"
      M      == GetValidReplacementMember(ltrim(parts[2]))
      none   == Token("KUnknown", "", FALSE)
      inlined(Prop) ==
        IF ~Prop.ok
          THEN [ok |-> FALSE, tok |-> none, err |-> "unknown file property"]
        ELSE IF ~isIdentifier(Prop.val)
          THEN [ok |-> FALSE, tok |-> none,
                err |-> "replacement contains invalid characters"]
        ELSE [ok |-> TRUE, tok |-> Token("KSimple", Prop.val, FALSE), err |-> ""]
  IN IF R = "" THEN [ok |-> FALSE, tok |-> none, err |-> "empty replacement body"]
     ELSE IF Tok = "KUnknown"
       THEN [ok |-> FALSE, tok |-> none, err |-> "unknown replacement object"]
     ELSE IF ~M.has
       THEN [ok |-> FALSE, tok |-> none, err |-> "unknown replacement member"]
     ELSE IF Tok = "KThis" /\ This.has
       THEN inlined(getPropertyRaw(This.filename, M.val))
     ELSE [ok |-> TRUE, tok |-> Token(Tok, M.val, FALSE), err |-> ""]

isReplacement(R) ==
  /\ Len(R) >= 2
  /\ CharAt(R, 1) = "{"
  /\ CharAt(R, Len(R)) = "}"
  /\ count(R, "{") = 1

\* A wasLastTokenGlob that never says yes.
wasLastTokenGlob_Never(Toks) == FALSE

wasLastTokenGlob(Toks) == Toks # <<>> /\ Toks[Len(Toks)].kind = "KGlob"

(***************************************************************************)
(* driver/Pattern.cpp: PatternLexer::CompoundLexer                         *)
(***************************************************************************)
\* The fields of a CompoundLexer after start(); At is a 1-based index into
\* Curr, Replacements an ordered map kept as a sequence of [key, tok].
CompoundStart ==
  [At |-> 1, TempBuffer |-> "", LastReadKind |-> "KUnsupported",
   HasRegex |-> FALSE, HasReplacements |-> FALSE, Replacements |-> <<>>]

COk(cs)   == [st |-> "ok", cs |-> cs, err |-> ""]
CErr(msg) == [st |-> "err", cs |-> CompoundStart, err |-> msg]
CHang     == [st |-> "hang", cs |-> CompoundStart, err |-> ""]

at(Curr, cs) ==
  IF cs.At > Len(Curr) THEN "KEnd" ELSE identify(CharAt(Curr, cs.At))

next(Curr, cs) ==
  IF cs.At + 1 > Len(Curr) THEN "KEnd" ELSE identify(CharAt(Curr, cs.At + 1))

handleRegexError(K) ==
  CASE K = "KOpenCurly" -> CErr("quantifiers not allowed in this regex flavor")
    [] K \in {"KRange", "KNot"} -> CErr("character found outside character class")
    [] K \in {"KCloseParen", "KCloseBrace", "KCloseCurly"} -> CErr("unopened")
    [] K = "KWhitespace" -> CErr("whitespace found in pattern")
    [] OTHER -> CErr("invalid character in pattern")

\* A handleKleeneOrQuantifier that takes no quantifier after a quantifier.
handleKleeneOrQuantifier_NoLazy(Curr, cs, K) ==
  LET L    == cs.LastReadKind
      push == COk([cs EXCEPT !.TempBuffer = @ \o CharAt(Curr, cs.At),
                             !.At = @ + 1,
                             !.LastReadKind = K])
  IN IF L = "KUnsupported" THEN CErr("found at the start of pattern")
     ELSE IF L \in {"KIdentifier", "KWildcard", "KCloseParen", "KCloseBrace",
                    "KCloseCurly"} THEN push
     ELSE IF L \in {"KZeroOrOne", "KKleene", "KKleenePlus"}
       THEN CErr("found multiple quantifiers in a row")
     ELSE handleRegexError(K)

handleKleeneOrQuantifier(Curr, cs, K) ==
  LET L    == cs.LastReadKind
      push == COk([cs EXCEPT !.TempBuffer = @ \o CharAt(Curr, cs.At),
                             !.At = @ + 1,
                             !.LastReadKind = K])
  IN IF L = "KUnsupported" THEN CErr("found at the start of pattern")
     ELSE IF L \in {"KIdentifier", "KWildcard", "KCloseParen", "KCloseBrace"} THEN push
     ELSE IF L \in {"KZeroOrOne", "KKleene", "KKleenePlus"}
       THEN IF K # "KZeroOrOne"
              THEN IF K = "KKleene" /\ L = "KKleene"
                     THEN CErr("glob not allowed in compound expressions")
                     ELSE CErr("found multiple quantifiers in a row")
            ELSE IF next(Curr, cs) = "KZeroOrOne"
              THEN CErr("found multiple quantifiers in a row")
            ELSE push
     ELSE IF L = "KCloseCurly" THEN push
     ELSE handleRegexError(K)

\* handleEscape(char): the class an escape letter stands for.
\* A handleEscape that appends the escape as it was written.
EscapeClass_Verbatim(C) == "\\" \o C

EscapeClass(C) ==
  CASE C = "a" -> "[A-Za-z]"
    [] C = "d" -> "[0-9]"
    [] C = "w" -> "[A-Za-z0-9_]"
    [] C = "i" -> "[A-Za-z0-9_$]"

handleEscape(Curr, cs) ==
  LET C == CharAt(Curr, cs.At + 1)
  IN IF next(Curr, cs) = "KEnd" THEN CErr("character must follow escape sequence")
     ELSE IF C \in {"a", "d", "w", "i"}
       THEN COk([cs EXCEPT !.TempBuffer = @ \o EscapeClass(C),
                           !.At = @ + 2,
                           !.LastReadKind = "KCloseBrace"])
     ELSE IF C \in {"n", "r", "t", "0"} THEN CErr("whitespace escapes are not allowed")
     ELSE CErr("invalid escape sequence")

\* The scan of a "[:name:]" inside a class: MCEnd walks from the first
\* letter of the name.  CC is indexed from 1, so the source's CC[k] is
\* CharAt(CC, k + 1) and its E is Len(CC) - 1.
RECURSIVE ScanMetaclass(_, _)
ScanMetaclass(CC, MCEnd) ==
  IF CharAt(CC, MCEnd + 1) = ":" THEN [st |-> "ok", MCEnd |-> MCEnd]
  ELSE IF MCEnd + 1 >= Len(CC) - 1 THEN [st |-> "unterminated", MCEnd |-> MCEnd]
  ELSE IF ~isLower(CharAt(CC, MCEnd + 1)) THEN [st |-> "invalid", MCEnd |-> MCEnd]
  ELSE ScanMetaclass(CC, MCEnd + 1)

\* The loop of validateCharacterClass from 0-based index I; "" when the
\* class is valid, the error otherwise.
RECURSIVE ValidateClassFrom(_, _, _)
ValidateClassFrom(CC, Start, I) ==
  LET E   == Len(CC) - 1
      c0  == CharAt(CC, I + 1)
      c1  == CharAt(CC, I + 2)
      cm1 == CharAt(CC, I)
      MC  == ScanMetaclass(CC, I + 2)
      MCSize == MC.MCEnd - (I + 2)
      Name == SubSeq(CC, I + 3, I + 2 + MCSize)
  IN IF I >= E THEN ""
     ELSE IF c0 = "-"
       THEN IF I = Start THEN "invalid character '-' found at end of class"
            ELSE IF ~isIdentifier(c1) THEN "invalid character in case range"
            ELSE IF ~IsValidCaseRange(cm1, c1) THEN "invalid case range"
            ELSE ValidateClassFrom(CC, Start, I + 2)
     ELSE IF c0 = "[" /\ c1 = ":"
       THEN IF I + 5 >= E THEN "invalid POSIX metaclass"
            ELSE IF MC.st = "unterminated" THEN "unterminated POSIX metaclass"
            ELSE IF MC.st = "invalid" THEN "invalid character in POSIX metaclass"
            ELSE IF CharAt(CC, MC.MCEnd + 2) # "]" THEN "unterminated POSIX metaclass"
            ELSE IF ~IsValidPOSIXMetaclass(Name) THEN "unknown POSIX metaclass"
            ELSE ValidateClassFrom(CC, Start, I + 2 + MCSize + 1 + 1)
     ELSE IF ~isIdentifier(c0) THEN "invalid character found in case range"
     ELSE ValidateClassFrom(CC, Start, I + 1)

validateCharacterClass(CC) ==
  IF Len(CC) <= 2 THEN "invalid character class"
  ELSE IF CharAt(CC, 2) = "-" THEN "invalid character '-' found at start class"
  ELSE IF CharAt(CC, 2) = "^"
    THEN IF Len(CC) = 3 THEN "invalid character '^' found in class"
         ELSE ValidateClassFrom(CC, 2, 2)
  ELSE ValidateClassFrom(CC, 1, 1)

\* The scan of handleCharacterClass for the closing brace: CCEnd is a
\* 1-based index; 0 stands for the nesting error.
RECURSIVE ScanClassEnd(_, _, _)
ScanClassEnd(Curr, CCEnd, InPOSIXMC) ==
  IF CCEnd > Len(Curr) THEN CCEnd
  ELSE IF CharAt(Curr, CCEnd) = "]"
    THEN IF ~InPOSIXMC THEN CCEnd ELSE ScanClassEnd(Curr, CCEnd + 1, FALSE)
  ELSE IF CharAt(Curr, CCEnd) = "["
    THEN IF InPOSIXMC THEN 0 ELSE ScanClassEnd(Curr, CCEnd + 1, TRUE)
  ELSE ScanClassEnd(Curr, CCEnd + 1, InPOSIXMC)

handleCharacterClass(Curr, cs) ==
  LET CCEnd == ScanClassEnd(Curr, cs.At + 1, FALSE)
      CC    == SubSeq(Curr, cs.At, CCEnd)
      E     == validateCharacterClass(CC)
  IN IF CCEnd = 0 THEN CErr("invalid character class nesting")
     ELSE IF CCEnd > Len(Curr) THEN CErr("unterminated character class")
     ELSE IF E # "" THEN CErr(E)
     ELSE COk([cs EXCEPT !.TempBuffer = @ \o CC,
                         !.At = CCEnd + 1,
                         !.LastReadKind = "KCloseBrace"])

\* KWildcard appends the identifier class and returns without advancing
\* At, so lexImpl meets the same '.' again: the loop never ends.
dispatchRegexChecker(Curr, cs0, K) ==
  LET cs == [cs0 EXCEPT !.HasRegex = TRUE]
  IN CASE K = "KWildcard" -> CHang
       [] K \in {"KZeroOrOne", "KKleene", "KKleenePlus"} ->
            handleKleeneOrQuantifier(Curr, cs, K)
       [] K = "KEscape"    -> handleEscape(Curr, cs)
       [] K = "KOpenBrace" -> handleCharacterClass(Curr, cs)
       [] K = "KOpenParen" -> CErr("match groups currently unsupported")
       [] OTHER            -> handleRegexError(K)

\* The index of key R in the ordered map, 0 when absent.
ReplacementIndex(Replacements, R) ==
  LET hits == {i \in 1..Len(Replacements) : Replacements[i].key = R}
  IN IF hits = {} THEN 0 ELSE CHOOSE i \in hits : TRUE

starts_with_insensitive(s, p) ==
  Len(s) >= Len(p) /\ lower(SubSeq(s, 1, Len(p))) = lower(p)

CompoundHandleReplacement(Curr, cs, This) ==
  LET rest  == SubSeq(Curr, cs.At + 1, Len(Curr))
      close == find(rest, "}")
      REnd  == cs.At + close
      R     == trim(SubSeq(rest, 1, close - 1))
      M     == GetValidReplacementMember(split(R, ".")[2])
      found == ReplacementIndex(cs.Replacements, R)
      inlined(Prop) ==
        IF ~Prop.ok THEN CErr("unknown file property")
        ELSE IF ~isIdentifier(Prop.val)
          THEN CErr("replacement contains invalid characters")
        ELSE COk([cs EXCEPT !.TempBuffer = @ \o "(" \o Prop.val \o ")",
                            !.At = REnd + 1,
                            !.LastReadKind = "KIdentifier"])
      emplaced(Repls, Off) ==
        IF Off > kMaxTrailing THEN CErr("too many trailing arguments")
        ELSE COk([cs EXCEPT !.HasReplacements = TRUE,
                            !.Replacements = Repls,
                            !.TempBuffer = @ \o "{" \o ToString(Off) \o "}",
                            !.At = REnd + 1,
                            !.LastReadKind = "KCloseCurly"])
      try_emplace(Tok) ==
        IF found # 0 THEN emplaced(cs.Replacements, found - 1)
        ELSE IF ~Tok.ok THEN CErr(Tok.err)
        ELSE emplaced(Append(cs.Replacements,
                             [key |-> R, tok |-> [Tok.tok EXCEPT !.grouped = TRUE]]),
                      Len(cs.Replacements))
  IN IF close = 0 THEN CErr("unterminated replacement block")
     ELSE IF This.has /\ starts_with_insensitive(R, "this")
       THEN IF ~M.has THEN CErr("invalid property name")
            ELSE inlined(getPropertyRaw(This.filename, M.val))
     ELSE try_emplace(handleReplacementImpl(R, This))

RECURSIVE CompoundLexImpl(_, _, _)
CompoundLexImpl(Curr, cs, This) ==
  LET K == at(Curr, cs)
      loop(r) == IF r.st # "ok" THEN r ELSE CompoundLexImpl(Curr, r.cs, This)
  IN IF cs.At > Len(Curr) THEN COk(cs)
     ELSE loop(IF K = "KOpenCurly" THEN CompoundHandleReplacement(Curr, cs, This)
               ELSE IF K = "KIdentifier"
                 THEN COk([cs EXCEPT !.TempBuffer = @ \o CharAt(Curr, cs.At),
                                     !.At = @ + 1,
                                     !.LastReadKind = K])
               ELSE dispatchRegexChecker(Curr, cs, K))

\* The tokens finish() pushes: the leading token, then the replacements,
\* the last of which closes the group.  `trailing` keeps three bits.
finish(cs) ==
  LET K    == IF cs.HasRegex
                THEN (IF cs.HasReplacements THEN "KRegexFmt" ELSE "KRegex")
                ELSE "KSimpleFmt"
      n    == Len(cs.Replacements)
      Main == [Token(K, cs.TempBuffer, cs.HasReplacements)
                 EXCEPT !.trailing = n % (kMaxTrailing + 1)]
      Trail == [i \in 1..n |->
                  IF i = n THEN [cs.Replacements[i].tok EXCEPT !.grouped = FALSE]
                  ELSE cs.Replacements[i].tok]
  IN <<Main>> \o (IF cs.HasReplacements THEN Trail ELSE <<>>)

RECURSIVE StripParentheses(_)
StripParentheses(S) ==
  IF S = "" THEN ""
  ELSE IF CharAt(S, 1) \in {"(", ")"} THEN StripParentheses(Tail(S))
  ELSE CharAt(S, 1) \o StripParentheses(Tail(S))

\* CompoundLexer::lex: the tokens one compound segment adds.
CompoundLex(Curr, This) ==
  LET lexed(r) ==
        IF r.st = "hang" THEN LexHang
        ELSE IF r.st = "err" THEN LexErr(r.err)
        ELSE IF ~r.cs.HasRegex /\ ~r.cs.HasReplacements
          THEN LexOk(<<Token("KSimple", StripParentheses(r.cs.TempBuffer), FALSE)>>)
        ELSE LexOk(finish(r.cs))
  IN IF isIdentifier(Curr) THEN LexOk(<<Token("KSimple", Curr, FALSE)>>)
     ELSE lexed(CompoundLexImpl(Curr, CompoundStart, This))

handleCompound(Curr0, This) ==
  LET slashed == starts_with(Curr0, "/")
      front   == IF slashed THEN drop_front(Curr0, 1) ELSE Curr0
      Curr    == IF slashed /\ ends_with(front, "/") THEN drop_back(front, 1) ELSE front
  IN IF slashed /\ ~ends_with(front, "/") THEN LexErr("unknown sequence in compound.")
     ELSE CompoundLex(Curr, This)

\* lexImpl with handleSimple and loadNextToken folded in: each round takes
\* the next "::" segment of Pat.
RECURSIVE lexImpl(_, _, _)
lexImpl(Pat, Toks, This) ==
  LET parts == split(Pat, "::")
      Curr  == trim(parts[1])
      rest  == parts[2]
      SA    == IdentifyStandalone(Curr)
      pushReplacement(Rep) ==
        IF ~Rep.ok THEN LexErr(Rep.err)
        ELSE lexImpl(rest, Append(Toks, Rep.tok), This)
      pushCompound(Comp) ==
        IF Comp.st # "ok" THEN Comp
        ELSE lexImpl(rest, Toks \o Comp.toks, This)
  IN IF Pat = "" THEN LexOk(Toks)
     ELSE IF Curr = "" THEN LexErr("invalid pattern: contains empty token")
     ELSE IF isIdentifier(Curr)
       THEN IF isDigit(CharAt(Curr, 1))
              THEN LexErr("identifiers cannot start with a number")
              ELSE lexImpl(rest, Append(Toks, Token("KSimple", Curr, FALSE)), This)
     ELSE IF SA # "KUnknown"
       THEN IF ~wasLastTokenGlob(Toks) \/ SA # "KGlob"
              THEN lexImpl(rest, Append(Toks, Token(SA, Curr, FALSE)), This)
              ELSE lexImpl(rest, Toks, This)
     ELSE IF isReplacement(Curr)
       THEN pushReplacement(
              handleReplacementImpl(drop_back(drop_front(Curr, 1), 1), This))
     ELSE pushCompound(handleCompound(Curr, This))

\* A lex() without the checks that follow lexImpl.
PatternLex_Unchecked(Pat, This) ==
  IF ends_with(Pat, "::") THEN LexErr("cannot end with scope resolution")
  ELSE lexImpl(Pat, <<>>, This)

PatternLex(Pat, This) ==
  LET lexed(r) ==
        IF r.st # "ok" THEN r
        ELSE IF Len(r.toks) = 1 /\ r.toks[1].kind = "KGlob"
          THEN LexErr("must contain non-glob particle")
        ELSE IF Len(r.toks) = 1 /\ r.toks[1].kind = "KAnonymous"
          THEN LexErr("must contain non-anonymous particle")
        ELSE r
  IN IF ends_with(Pat, "::") THEN LexErr("cannot end with scope resolution")
     ELSE IF ends_with(Pat, "@") THEN LexErr("cannot end with anonymous namespace")
     ELSE lexed(lexImpl(Pat, <<>>, This))

lexTokensForPattern(Pat0, This) ==
  LET t   == trim(Pat0)
      Pat == IF starts_with(t, "::") THEN drop_front(t, 2) ELSE t
  IN IF Pat = "" THEN LexErr("invalid pattern: cannot be empty")
     ELSE PatternLex(Pat, This)

(***************************************************************************)
(* llvm::Regex: POSIX extended regular expressions.  The expressions the   *)
(* lexer emits are concatenations of literals, '.', bracket expressions    *)
(* and the quantifiers ? * +; an expression is a sequence of atoms         *)
(* [neg, chars, q].                                                        *)
(***************************************************************************)
AllChars == CharsOf(AsciiStr)

XDigitSet == DigitSet \cup CharsOf("ABCDEFabcdef")

POSIXClass(name) ==
  CASE name = "upper"  -> UpperSet
    [] name = "lower"  -> LowerSet
    [] name = "alpha"  -> UpperSet \cup LowerSet
    [] name = "digit"  -> DigitSet
    [] name = "alnum"  -> UpperSet \cup LowerSet \cup DigitSet
    [] name = "xdigit" -> XDigitSet
    [] OTHER           -> {}

CharRange(a, b) == {c \in AllChars : Ord[a] <= Ord[c] /\ Ord[c] <= Ord[b]}

\* The items of a bracket expression from index i up to the closing ']'.
RECURSIVE ParseBracketItems(_, _, _)
ParseBracketItems(s, i, acc) ==
  LET c     == CharAt(s, i)
      close == find(SubSeq(s, i + 2, Len(s)), ":]")
      name  == SubSeq(s, i + 2, i + close)
  IN IF i > Len(s) THEN [ok |-> FALSE, chars |-> {}, next |-> i]
     ELSE IF c = "]" THEN [ok |-> TRUE, chars |-> acc, next |-> i + 1]
     ELSE IF c = "[" /\ CharAt(s, i + 1) = ":"
       THEN IF close = 0 \/ POSIXClass(name) = {}
              THEN [ok |-> FALSE, chars |-> {}, next |-> i]
              ELSE ParseBracketItems(s, i + close + 3, acc \cup POSIXClass(name))
     ELSE IF CharAt(s, i + 1) = "-" /\ i + 2 <= Len(s) /\ CharAt(s, i + 2) # "]"
       THEN IF Ord[c] > Ord[CharAt(s, i + 2)]
              THEN [ok |-> FALSE, chars |-> {}, next |-> i]
              ELSE ParseBracketItems(s, i + 3, acc \cup CharRange(c, CharAt(s, i + 2)))
     ELSE ParseBracketItems(s, i + 1, acc \cup {c})

\* The atom at index i of the expression, without its quantifier.
ParseAtom(s, i) ==
  LET c   == CharAt(s, i)
      neg == CharAt(s, i + 1) = "^"
      bracket(br) == [ok |-> br.ok, neg |-> neg, chars |-> br.chars, next |-> br.next]
  IN CASE c = "[" -> bracket(ParseBracketItems(s, IF neg THEN i + 2 ELSE i + 1, {}))
       [] c = "." -> [ok |-> TRUE, neg |-> TRUE, chars |-> {}, next |-> i + 1]
       [] c \in {"*", "+", "?", "(", ")", "{", "\\", "^", "$"} ->
            [ok |-> FALSE, neg |-> FALSE, chars |-> {}, next |-> i]
       [] OTHER -> [ok |-> TRUE, neg |-> FALSE, chars |-> {c}, next |-> i + 1]

Quantifiers == {"*", "+", "?"}

\* regcomp: a quantifier right after a quantifier is REG_BADRPT, an empty
\* expression REG_EMPTY.
RECURSIVE ParseAtoms(_, _, _)
ParseAtoms(s, i, acc) ==
  LET quantified(a, hasQ) ==
        IF ~a.ok THEN [valid |-> FALSE, atoms |-> <<>>]
        ELSE IF hasQ /\ a.next + 1 <= Len(s) /\ CharAt(s, a.next + 1) \in Quantifiers
          THEN [valid |-> FALSE, atoms |-> <<>>]
        ELSE ParseAtoms(s, IF hasQ THEN a.next + 1 ELSE a.next,
               Append(acc, [neg |-> a.neg, chars |-> a.chars,
                            q |-> IF hasQ THEN CharAt(s, a.next) ELSE "1"]))
      atom(a) == quantified(a, a.next <= Len(s) /\ CharAt(s, a.next) \in Quantifiers)
  IN IF i > Len(s) THEN [valid |-> acc # <<>>, atoms |-> acc]
     ELSE atom(ParseAtom(s, i))

\* llvm::Regex::Regex(StringRef)
Regex(text) == ParseAtoms(text, 1, <<>>)

AtomAccepts(a, c) == (c \in a.chars) # a.neg

\* Positions (0..Len) reached from the positions P by one character of a.
StepOne(a, Name, P) ==
  {p + 1 : p \in {p \in P : p < Len(Name) /\ AtomAccepts(a, CharAt(Name, p + 1))}}

RECURSIVE StepStar(_, _, _)
StepStar(a, Name, P) ==
  LET Q == P \cup StepOne(a, Name, P)
  IN IF Q = P THEN P ELSE StepStar(a, Name, Q)

StepAtom(a, Name, P) ==
  CASE a.q = "1" -> StepOne(a, Name, P)
    [] a.q = "?" -> P \cup StepOne(a, Name, P)
    [] a.q = "*" -> StepStar(a, Name, P)
    [] a.q = "+" -> StepStar(a, Name, StepOne(a, Name, P))

RECURSIVE RunAtoms(_, _, _)
RunAtoms(atoms, Name, P) ==
  IF atoms = <<>> THEN P
  ELSE RunAtoms(Tail(atoms), Name, StepAtom(Head(atoms), Name, P))

\* A match that wants the whole of Name to match the expression.
RegexMatch_Whole(re, Name) ==
  re.valid /\ Len(Name) \in RunAtoms(re.atoms, Name, {0})

\* llvm::Regex::match: false for an expression that did not compile,
\* otherwise regexec, which searches Name for a matching substring.
RegexMatch(re, Name) ==
  re.valid /\ RunAtoms(re.atoms, Name, 0..Len(Name)) # {}

(***************************************************************************)
(* llvm::formatv_object_base::parseFormatString and FmtReplacer            *)
(***************************************************************************)
DigitValue(c) == (CHOOSE i \in 1..10 : CharAt(DigitStr, i) = c) - 1

\* The literal and "{n}" items of a format string; empty literals dropped.
RECURSIVE parseFormatString(_)
parseFormatString(Fmt) ==
  LET open  == find(Fmt, "{")
      close == find(Fmt, "}")
      lit   == IF open = 0 THEN Fmt ELSE SubSeq(Fmt, 1, open - 1)
      litItem == IF lit = "" THEN <<>>
                 ELSE <<[IsFormat |-> FALSE, Lit |-> lit, Index |-> 0]>>
      hole  == [IsFormat |-> TRUE, Lit |-> "",
                Index |-> DigitValue(CharAt(Fmt, open + 1))]
  IN IF Fmt = "" THEN <<>>
     ELSE IF open = 0 THEN litItem
     ELSE litItem \o <<hole>> \o parseFormatString(SubSeq(Fmt, close + 1, Len(Fmt)))

\* FmtReplacer::ParseToks: a hole becomes the property name of its trailing
\* token.
ParseToks(Toks) ==
  LET Items == parseFormatString(Toks[1].str)
  IN [i \in 1..Len(Items) |->
        IF Items[i].IsFormat
          THEN [IsFormat |-> TRUE, Lit |-> Toks[Items[i].Index + 2].str]
          ELSE [IsFormat |-> FALSE, Lit |-> Items[i].Lit]]

\* The text FmtReplacer::replace builds from its pieces: [ok, val].
RECURSIVE FormatPieces(_, _)
FormatPieces(Pieces, filename) ==
  LET RP   == Head(Pieces)
      rest == FormatPieces(Tail(Pieces), filename)
      formatted(Prop) ==
        IF ~Prop.ok THEN [ok |-> FALSE, val |-> ""]
        ELSE [ok |-> rest.ok, val |-> Prop.val \o rest.val]
  IN IF Pieces = <<>> THEN [ok |-> TRUE, val |-> ""]
     ELSE IF RP.IsFormat THEN formatted(getPropertyRaw(filename, RP.Lit))
     ELSE [ok |-> rest.ok, val |-> RP.Lit \o rest.val]

(***************************************************************************)
(* driver/Pattern.hpp: the node tree.  A node is a record; its children    *)
(* are arena indices.                                                      *)
(***************************************************************************)
\* unsigned(-1): above every real count; held at the largest integer the
\* model checker has.
VARIABLE_COUNT == 2147483647

\* std::optional<llvm::Regex>, kept as the expression's text.
NoRegExp == [has |-> FALSE, text |-> ""]

PatternNode(kind, Literals, Patterns, P, RegExp, Count, RealCount) ==
  [kind |-> kind, Literals |-> Literals, Patterns |-> Patterns, P |-> P,
   RegExp |-> RegExp, Count |-> Count, RealCount |-> RealCount]

SimplePattern(Literals) ==
  PatternNode("Simple", Literals, <<>>, "", NoRegExp, Len(Literals), 0)

SingleSequencePattern(Patterns) ==
  PatternNode("SingleSequence", <<>>, Patterns, "", NoRegExp, Len(Patterns), 0)

ForwardingPattern(ThePattern) ==
  PatternNode("Forwarding", <<>>, <<ThePattern>>, "", NoRegExp, 1, 0)

LeadingGlobPattern(Trailing) ==
  PatternNode("LeadingGlob", <<>>, <<Trailing>>, "", NoRegExp, VARIABLE_COUNT, 0)

ButterflyGlobPattern(Leading, Trailing) ==
  PatternNode("ButterflyGlob", <<>>, <<Leading, Trailing>>, "", NoRegExp,
              VARIABLE_COUNT, 0)

\* SoloPattern(P); the default constructor leaves P empty.
SoloPattern(P) == PatternNode("Solo", <<>>, <<>>, P, NoRegExp, 1, 0)

\* RegexPattern(RegExp); the default constructor leaves the optional absent.
RegexPattern(RegExp) == PatternNode("Regex", <<>>, <<>>, "", RegExp, 1, 0)

isSinglePattern(n) == n.kind \in {"Solo", "Regex"}

RECURSIVE requiredCount(_, _)
requiredCount(nodes, id) ==
  LET n == nodes[id]
  IN CASE isSinglePattern(n) -> 1
       [] n.kind = "Forwarding" -> 1
       [] n.kind = "AnySequence" -> n.RealCount
       [] n.kind = "LeadingGlob" -> requiredCount(nodes, n.Patterns[1])
       [] n.kind = "ButterflyGlob" ->
            requiredCount(nodes, n.Patterns[1]) + requiredCount(nodes, n.Patterns[2])
       [] OTHER -> n.Count

\* AnySequencePattern's constructor: RealCount sums what its children need.
RECURSIVE SumRequired(_, _)
SumRequired(nodes, Patterns) ==
  IF Patterns = <<>> THEN 0
  ELSE (IF isSinglePattern(nodes[Head(Patterns)]) THEN 1
        ELSE requiredCount(nodes, Head(Patterns)))
       + SumRequired(nodes, Tail(Patterns))

AnySequencePattern(nodes, Patterns) ==
  PatternNode("AnySequence", <<>>, Patterns, "", NoRegExp, Len(Patterns),
              SumRequired(nodes, Patterns))

(***************************************************************************)
(* SymbolMatcher: the arena and the pattern compiler.  The arena A is      *)
(* [nodes, Replacements]; a maker returns [st, A, id].                     *)
(***************************************************************************)
Made(A, id) == [st |-> "ok", err |-> "", A |-> A, id |-> id]
MakeError(A, msg) == [st |-> "err", err |-> msg, A |-> A, id |-> 0]
Fault(A) == [st |-> "fault", err |-> "", A |-> A, id |-> 0]

\* make<NodeT> / makeNew<NodeT>
make(A, node) ==
  Made([A EXCEPT !.nodes = Append(@, node)], Len(A.nodes) + 1)

\* makeR<NodeT>: the replacer holds the leaf; the leaf starts as NodeT().
makeR(A, leaf, Rep) ==
  LET id == Len(A.nodes) + 1
  IN Made([nodes |-> Append(A.nodes, leaf),
           Replacements |-> Append(A.Replacements, [Rep EXCEPT !.ThePattern = id])],
          id)

FmtReplacerStorage(Toks, isRegex) ==
  [kind |-> "Fmt", Pieces |-> ParseToks(Toks), TheProp |-> "",
   ThePattern |-> 0, isRegex |-> isRegex]

ProxyReplacerStorage(Tok) ==
  [kind |-> "Proxy", Pieces |-> <<>>, TheProp |-> Tok.str,
   ThePattern |-> 0, isRegex |-> FALSE]

\* Token::isLiteral
isLiteral(Tok) == Tok.kind \in {"KSimple", "KAnonymous"}

\* What the build can do at an llvm_unreachable, and at the read of the
\* token one past the end of the vector.
UnreachableOutcomes == {"fault", "KSimple", "KLateBind", "KRegex"}
PastEndOutcomes == {"fault", "KGlob", "KOther"}
EvalOrders == {"LeftFirst", "RightFirst"}
UBChoices == [unreachable : UnreachableOutcomes, pastEnd : PastEndOutcomes,
              order : EvalOrders]
FaultChoices == {ub \in UBChoices : ub.unreachable = "fault" /\ ub.pastEnd = "fault"}

\* The results a call can have, R[ub] its result under the choice ub.  If
\* it faults under no choice of FaultChoices it has met neither an
\* llvm_unreachable nor a read past the end, and the other choices give
\* nothing new.
Outcomes(R) ==
  LET base == {R[ub] : ub \in FaultChoices}
  IN IF \A r \in base : r.st # "fault" THEN base ELSE {R[ub] : ub \in UBChoices}

TokenGroup(first, Count, AllSimple, Replacement, LeadingGlob) ==
  [first |-> first, Count |-> Count, AllSimple |-> AllSimple,
   Replacement |-> Replacement, LeadingGlob |-> LeadingGlob]

arr(Toks, Group) == SubSeq(Toks, Group.first, Group.first + Group.Count - 1)

\* The length N of the group the inner loop finds from token J.
RECURSIVE GroupLength(_, _)
GroupLength(Toks, J) ==
  IF J > Len(Toks) \/ Toks[J].kind = "KGlob" \/ Toks[J].trailing > 0 THEN 0
  ELSE 1 + GroupLength(Toks, J + 1)

\* splitIntoGroups from token I: [st, err, Groups, Globs].
RECURSIVE splitIntoGroups(_, _, _, _, _)
splitIntoGroups(Toks, I, Groups, Globs, ub) ==
  LET E       == Len(Toks)
      isGlob  == Toks[I].kind = "KGlob"
      J       == IF isGlob THEN I + 1 ELSE I
      Globs1  == IF isGlob THEN Globs + 1 ELSE Globs
      pastEnd == isGlob /\ J > E
      N       == GroupLength(Toks, J)
      AllSimple == \A k \in J..(J + N - 1) : isLiteral(Toks[k])
      fail(st, msg) == [st |-> st, err |-> msg, Groups |-> <<>>, Globs |-> 0]
  IN IF I > E
       THEN IF Groups = <<>> THEN fail("err", "found no groups?")
            ELSE [st |-> "ok", err |-> "", Groups |-> Groups, Globs |-> Globs]
     ELSE IF pastEnd
       THEN CASE ub.pastEnd = "fault" -> fail("fault", "")
              [] ub.pastEnd = "KGlob" -> fail("err", "sequential globs not coalesced?")
              [] OTHER -> fail("err", "glob token found at end of pattern?")
     ELSE IF isGlob /\ Toks[J].kind = "KGlob"
       THEN fail("err", "sequential globs not coalesced?")
     ELSE IF Toks[J].trailing > 0
       THEN splitIntoGroups(Toks, J + Toks[J].trailing + 1,
              Append(Groups, TokenGroup(J, Toks[J].trailing + 1, FALSE, TRUE, isGlob)),
              Globs1, ub)
     ELSE IF N = 0 THEN fail("err", "found empty group?")
     ELSE splitIntoGroups(Toks, J + N,
            Append(Groups, TokenGroup(J, N, AllSimple, FALSE, isGlob)), Globs1, ub)

makeSimple(A, Toks) ==
  make(A, SimplePattern([i \in 1..Len(Toks) |-> Toks[i].str]))

\* The leaf makeSingleSequence builds for a token of kind K.
makeLeaf(A, Tok, K) ==
  CASE K \in {"KSimple", "KAnonymous"} -> make(A, SoloPattern(Tok.str))
    [] K = "KLateBind" -> makeR(A, SoloPattern(""), ProxyReplacerStorage(Tok))
    [] K = "KRegex" -> make(A, RegexPattern([has |-> TRUE, text |-> Tok.str]))

\* The loop of makeSingleSequence: [st, A, ids].
RECURSIVE makeLeaves(_, _, _, _)
makeLeaves(A, Toks, ids, ub) ==
  LET Tok   == Head(Toks)
      known == Tok.kind \in {"KSimple", "KAnonymous", "KLateBind", "KRegex"}
      r     == makeLeaf(A, Tok, IF known THEN Tok.kind ELSE ub.unreachable)
  IN IF Toks = <<>> THEN [st |-> "ok", A |-> A, ids |-> ids]
     ELSE IF ~known /\ ub.unreachable = "fault" THEN [st |-> "fault", A |-> A, ids |-> ids]
     ELSE makeLeaves(r.A, Tail(Toks), Append(ids, r.id), ub)

makeSingleSequence(A, Toks, ub) ==
  LET r == makeLeaves(A, Toks, <<>>, ub)
  IN IF r.st # "ok" THEN Fault(r.A)
     ELSE make(r.A, SingleSequencePattern(r.ids))

makeReplacement(A, Toks) ==
  CASE Toks[1].kind = "KSimpleFmt" ->
         makeR(A, SoloPattern(""), FmtReplacerStorage(Toks, FALSE))
    [] Toks[1].kind = "KRegexFmt" ->
         makeR(A, RegexPattern(NoRegExp), FmtReplacerStorage(Toks, TRUE))
    [] OTHER -> Fault(A)

makeDispatch(A, Toks, Group, ub) ==
  IF Group.AllSimple THEN makeSimple(A, arr(Toks, Group))
  ELSE IF Group.Replacement THEN makeReplacement(A, arr(Toks, Group))
  ELSE makeSingleSequence(A, arr(Toks, Group), ub)

\* makeDispatch over every group in turn: [st, A, ids].
RECURSIVE makeDispatchAll(_, _, _, _, _)
makeDispatchAll(A, Toks, Groups, ids, ub) ==
  LET push(r) ==
        IF r.st # "ok" THEN [st |-> r.st, A |-> r.A, ids |-> ids]
        ELSE makeDispatchAll(r.A, Toks, Tail(Groups), Append(ids, r.id), ub)
  IN IF Groups = <<>> THEN [st |-> "ok", A |-> A, ids |-> ids]
     ELSE push(makeDispatch(A, Toks, Head(Groups), ub))

compilePattern0Globs(A, Toks, Groups, ub) ==
  LET sequence(r) ==
        IF r.st # "ok" THEN Fault(r.A)
        ELSE make(r.A, AnySequencePattern(r.A.nodes, r.ids))
  IN IF Len(Groups) = 1 THEN makeDispatch(A, Toks, Groups[1], ub)
     ELSE sequence(makeDispatchAll(A, Toks, Groups, <<>>, ub))

\* wrap: a single pattern is put behind a ForwardingPattern.
wrap(r) ==
  IF r.st # "ok" THEN r
  ELSE IF isSinglePattern(r.A.nodes[r.id]) THEN make(r.A, ForwardingPattern(r.id))
  ELSE r

\* take_until: the groups before the first one that follows a glob.
RECURSIVE take_until_LeadingGlob(_)
take_until_LeadingGlob(Groups) ==
  IF Groups = <<>> \/ Head(Groups).LeadingGlob THEN <<>>
  ELSE <<Head(Groups)>> \o take_until_LeadingGlob(Tail(Groups))

\* wrap(compilePattern0Globs(.)) for each list of groups in turn, up to the
\* first that fails: [st, err, A, id, ids].
RECURSIVE compileSides(_, _, _, _, _)
compileSides(A, Toks, Sides, ids, ub) ==
  LET built(r) ==
        IF r.st # "ok" THEN [st |-> r.st, err |-> r.err, A |-> r.A, id |-> 0, ids |-> ids]
        ELSE compileSides(r.A, Toks, Tail(Sides), Append(ids, r.id), ub)
  IN IF Sides = <<>> THEN [st |-> "ok", err |-> "", A |-> A, id |-> 0, ids |-> ids]
     ELSE built(wrap(compilePattern0Globs(A, Toks, Head(Sides), ub)))

\* The two arguments of make<ButterflyGlobPattern> are built in either
\* order.
compilePattern1Globs(A, Toks, Groups, ub) ==
  LET Leading   == take_until_LeadingGlob(Groups)
      Trailing  == SubSeq(Groups, Len(Leading) + 1, Len(Groups))
      LeftFirst == ub.order = "LeftFirst"
      glob(r) ==
        IF r.st # "ok" THEN [st |-> r.st, err |-> r.err, A |-> r.A, id |-> 0]
        ELSE IF Groups[1].LeadingGlob THEN make(r.A, LeadingGlobPattern(r.ids[1]))
        ELSE IF LeftFirst THEN make(r.A, ButterflyGlobPattern(r.ids[1], r.ids[2]))
        ELSE make(r.A, ButterflyGlobPattern(r.ids[2], r.ids[1]))
  IN glob(compileSides(A, Toks,
                       IF Groups[1].LeadingGlob THEN <<Groups>>
                       ELSE IF LeftFirst THEN <<Leading, Trailing>>
                       ELSE <<Trailing, Leading>>,
                       <<>>, ub))

\* A compilePatternNGlobs that makes a node all the same, the globs taken
\* as literal names.
compilePatternNGlobs_Literal(A, Groups, N) ==
  make(A, SimplePattern([I \in 1..Len(Groups) |-> "**"]))

compilePatternNGlobs(A, Groups, N) ==
  MakeError(A, "compilePatternNGlobs unimplemented!")

\* compilePatternImpl(ArrayRef<Token>)
compilePatternToks(A, Toks, ub) ==
  LET g == splitIntoGroups(Toks, 1, <<>>, 0, ub)
  IN IF g.st = "fault" THEN Fault(A)
     ELSE IF g.st = "err" THEN MakeError(A, g.err)
     ELSE IF g.Globs = 0 THEN compilePattern0Globs(A, Toks, g.Groups, ub)
     ELSE IF g.Globs = 1 THEN compilePattern1Globs(A, Toks, g.Groups, ub)
     ELSE compilePatternNGlobs(A, g.Groups, g.Globs)

\* The pattern texts the model hands to the matcher.
PatternTexts ==
  { "x::/y+/::z::I?{file.stem}",
    "**::{file.stem}",
    "[[:lower:]]+::**::{file.stem}",
    "**::a::b::I{file.stem}",
    "x::**::a::b::I{file.stem}",
    "a::**::b::**::c",
    "x::**::y::**",
    "I{file.stem}",
    "[[:lower:]]+",
    "a::b",
    "x::**",
    "{this.stem}" }

\* Lexing depends on the text alone: its results for those texts.
LexedPatterns == [Pat \in PatternTexts |-> lexTokensForPattern(Pat, NoThis)]

\* compilePatternImpl(StringRef): [st, err, A, id] with st "hang" when the
\* lexer never returns.
compilePatternImpl(A, Pat, ub) ==
  LET lexed(l, compiled) ==
        IF l.st = "hang" THEN [st |-> "hang", err |-> "", A |-> A, id |-> 0]
        ELSE IF l.st = "err" THEN MakeError(A, l.err)
        ELSE compiled
  IN lexed(LexedPatterns[Pat], compilePatternToks(A, LexedPatterns[Pat].toks, ub))

(***************************************************************************)
(* driver/Pattern.cpp: matching.  A match is "true", "false" or "UB": the  *)
(* last when it dereferences a RegexPattern whose optional is absent.      *)
(***************************************************************************)
Bool3(b) == IF b THEN "true" ELSE "false"

\* The loops return at the first result that is not "true".
RECURSIVE FirstFailure(_)
FirstFailure(results) ==
  IF results = <<>> THEN "true"
  ELSE IF Head(results) # "true" THEN Head(results)
  ELSE FirstFailure(Tail(results))

take_front(Names, n) == SubSeq(Names, 1, n)
take_back(Names, n) == SubSeq(Names, Len(Names) - n + 1, Len(Names))

\* SoloPattern::match and RegexPattern::match
SingleMatch(n, Name) ==
  IF n.kind = "Solo" THEN Bool3(n.P = Name)
  ELSE IF ~n.RegExp.has THEN "UB"
  ELSE Bool3(RegexMatch(Regex(n.RegExp.text), Name))

\* The names each child of an AnySequencePattern is given: child i takes
\* what it requires from what the children before it left.
RECURSIVE AnySequenceSlices(_, _, _)
AnySequenceSlices(nodes, Patterns, Names) ==
  LET id == Head(Patterns)
      N  == IF isSinglePattern(nodes[id]) THEN 1 ELSE requiredCount(nodes, id)
  IN IF Patterns = <<>> THEN <<>>
     ELSE <<take_front(Names, N)>>
          \o AnySequenceSlices(nodes, Tail(Patterns), SubSeq(Names, N + 1, Len(Names)))

RECURSIVE MultiMatch(_, _, _)

\* SimplePattern::match
SimplePattern_match(nodes, id, Names) ==
  LET n == nodes[id]
  IN IF requiredCount(nodes, id) # Len(Names) THEN "false"
     ELSE Bool3(\A I \in 1..Len(n.Literals) : n.Literals[I] = Names[I])

\* LeadingSimplePattern::match
LeadingSimplePattern_match(nodes, id, Names) ==
  LET n == nodes[id]
  IN IF requiredCount(nodes, id) >= Len(Names) THEN "false"
     ELSE Bool3(\A I \in 1..Len(n.Literals) : n.Literals[I] = Names[I])

\* SingleSequencePattern::match
SingleSequencePattern_match(nodes, id, Names) ==
  LET n == nodes[id]
      K == Len(n.Patterns)
  IN IF K # Len(Names) THEN "false"
     ELSE FirstFailure([I \in 1..K |-> SingleMatch(nodes[n.Patterns[I]], Names[I])])

\* AnySequencePattern::match: it returns once its children are through,
\* whatever names are left.
AnySequencePattern_match(nodes, id, Names) ==
  LET n  == nodes[id]
      K  == Len(n.Patterns)
      Sl == AnySequenceSlices(nodes, n.Patterns, Names)
  IN IF Len(Names) < n.RealCount THEN "false"
     ELSE FirstFailure([I \in 1..K |->
            IF isSinglePattern(nodes[n.Patterns[I]])
              THEN SingleMatch(nodes[n.Patterns[I]], Sl[I][1])
              ELSE MultiMatch(nodes, n.Patterns[I], Sl[I])])

\* ForwardingPattern::match
ForwardingPattern_match(nodes, id, Names) ==
  IF Len(Names) # 1 THEN "false"
  ELSE SingleMatch(nodes[nodes[id].Patterns[1]], Names[1])

\* A LeadingGlobPattern::match that wants a name in front of the trailing
\* ones.
LeadingGlobPattern_match_NonEmptyPrefix(nodes, id, Names) ==
  LET Trailing == nodes[id].Patterns[1]
      Count    == nodes[Trailing].Count
  IN IF Len(Names) <= Count THEN "false"
     ELSE MultiMatch(nodes, Trailing, take_back(Names, Count))

\* LeadingGlobPattern::match: Count is Trailing->count().
LeadingGlobPattern_match(nodes, id, Names) ==
  LET Trailing == nodes[id].Patterns[1]
      Count    == nodes[Trailing].Count
  IN IF Len(Names) < Count THEN "false"
     ELSE MultiMatch(nodes, Trailing, take_back(Names, Count))

\* ButterflyGlobPattern::match
ButterflyGlobPattern_match(nodes, id, Names) ==
  LET Leading       == nodes[id].Patterns[1]
      Trailing      == nodes[id].Patterns[2]
      LeadingCount  == nodes[Leading].Count
      TrailingCount == nodes[Trailing].Count
      Lead == MultiMatch(nodes, Leading, take_front(Names, LeadingCount))
  IN IF Len(Names) < LeadingCount + TrailingCount THEN "false"
     ELSE IF Lead # "true" THEN Lead
     ELSE MultiMatch(nodes, Trailing, take_back(Names, TrailingCount))

\* MultiPattern::match, the virtual call.
MultiMatch(nodes, id, Names) ==
  CASE nodes[id].kind = "Simple" -> SimplePattern_match(nodes, id, Names)
    [] nodes[id].kind = "LeadingSimple" -> LeadingSimplePattern_match(nodes, id, Names)
    [] nodes[id].kind = "SingleSequence" -> SingleSequencePattern_match(nodes, id, Names)
    [] nodes[id].kind = "AnySequence" -> AnySequencePattern_match(nodes, id, Names)
    [] nodes[id].kind = "Forwarding" -> ForwardingPattern_match(nodes, id, Names)
    [] nodes[id].kind = "LeadingGlob" -> LeadingGlobPattern_match(nodes, id, Names)
    [] nodes[id].kind = "ButterflyGlob" -> ButterflyGlobPattern_match(nodes, id, Names)

\* Pattern::matchSymbol
matchSymbol(nodes, id, Syms) ==
  IF Syms = <<>> THEN "false"
  ELSE IF isSinglePattern(nodes[id])
    THEN (IF Len(Syms) # 1 THEN "false" ELSE SingleMatch(nodes[id], Syms[1]))
  ELSE MultiMatch(nodes, id, Syms)

\* MatchAgainst walks a pointer set, whose order is not fixed: the results
\* it can end with.
MatchAgainst(nodes, Patterns, Syms) ==
  LET ends(R) ==
        (R \cap {"true", "UB"}) \cup (IF R \subseteq {"false"} THEN {"false"} ELSE {})
  IN ends({matchSymbol(nodes, id, Syms) : id \in Patterns})

(***************************************************************************)
(* SymbolMatcher: the matcher M is [nodes, Replacements, PatternMappings,  *)
(* CtorPatterns, DtorPatterns]; a null Pattern* is 0.                      *)
(***************************************************************************)
\* A compilePattern that compiles the text anew every time.
compilePattern_Anew(M, Pat, ub) ==
  LET emplace(r) ==
        IF r.st = "ok"
          THEN [st |-> "ok", err |-> "", id |-> r.id,
                M |-> [M EXCEPT !.nodes = r.A.nodes,
                                !.Replacements = r.A.Replacements,
                                !.PatternMappings = (Pat :> r.id) @@ @]]
        ELSE [st |-> r.st, err |-> r.err, id |-> 0,
              M |-> [M EXCEPT !.PatternMappings = (Pat :> 0) @@ @]]
  IN emplace(compilePatternImpl([nodes |-> M.nodes, Replacements |-> M.Replacements],
                                Pat, ub))

\* compilePattern: [st, err, M, id].  try_emplace leaves a null entry
\* behind when the compile does not succeed.
compilePattern(M, Pat, ub) ==
  LET cached == Pat \in DOMAIN M.PatternMappings /\ M.PatternMappings[Pat] # 0
      emplace(r) ==
        IF r.st = "ok"
          THEN [st |-> "ok", err |-> "", id |-> r.id,
                M |-> [M EXCEPT !.nodes = r.A.nodes,
                                !.Replacements = r.A.Replacements,
                                !.PatternMappings = (Pat :> r.id) @@ @]]
        ELSE [st |-> r.st, err |-> r.err, id |-> 0,
              M |-> [M EXCEPT !.PatternMappings = (Pat :> 0) @@ @]]
  IN IF cached
       THEN [st |-> "ok", err |-> "", M |-> M, id |-> M.PatternMappings[Pat]]
     ELSE emplace(compilePatternImpl([nodes |-> M.nodes,
                                      Replacements |-> M.Replacements], Pat, ub))

\* A replace that fills a leaf the first time only.
replace_Once(nodes, Rep, filename) ==
  LET Fmt  == FormatPieces(Rep.Pieces, filename)
      Prop == getPropertyRaw(filename, Rep.TheProp)
      id   == Rep.ThePattern
      new  == IF Rep.kind = "Proxy" THEN [nodes EXCEPT ![id].P = Prop.val]
              ELSE IF Rep.isRegex
                THEN [nodes EXCEPT ![id].RegExp = [has |-> TRUE, text |-> Fmt.val]]
              ELSE [nodes EXCEPT ![id].P = Fmt.val]
  IN IF nodes[id].P # "" \/ nodes[id].RegExp.has THEN [ok |-> TRUE, nodes |-> nodes]
     ELSE [ok |-> TRUE, nodes |-> new]

\* Replacer::replace for one replacer: [ok, nodes].
replace(nodes, Rep, filename) ==
  LET id == Rep.ThePattern
      proxy(Prop) ==
        IF ~Prop.ok THEN [ok |-> FALSE, nodes |-> nodes]
        ELSE [ok |-> TRUE, nodes |-> [nodes EXCEPT ![id].P = Prop.val]]
      formatv(Fmt) ==
        IF ~Fmt.ok THEN [ok |-> FALSE, nodes |-> nodes]
        ELSE IF Rep.isRegex
          THEN [ok |-> TRUE,
                nodes |-> [nodes EXCEPT ![id].RegExp = [has |-> TRUE, text |-> Fmt.val]]]
        ELSE [ok |-> TRUE, nodes |-> [nodes EXCEPT ![id].P = Fmt.val]]
  IN IF Rep.kind = "Proxy" THEN proxy(getPropertyRaw(filename, Rep.TheProp))
     ELSE formatv(FormatPieces(Rep.Pieces, filename))

\* A setFilename that rewrites the first replacer only.
setFilenameFrom_FirstOnly(nodes, Reps, I, filename, permissive) ==
  LET step(r) ==
        IF ~r.ok /\ ~permissive THEN [ok |-> FALSE, nodes |-> nodes, done |-> I - 1]
        ELSE [ok |-> TRUE, nodes |-> r.nodes, done |-> I]
  IN IF I > Len(Reps) THEN [ok |-> TRUE, nodes |-> nodes, done |-> Len(Reps)]
     ELSE step(replace(nodes, Reps[I], filename))

\* The loop of setFilename from replacer I: [ok, nodes, done], done the
\* number of replacers it got through.
RECURSIVE setFilenameFrom(_, _, _, _, _)
setFilenameFrom(nodes, Reps, I, filename, permissive) ==
  LET step(r) ==
        IF ~r.ok /\ ~permissive THEN [ok |-> FALSE, nodes |-> nodes, done |-> I - 1]
        ELSE setFilenameFrom(r.nodes, Reps, I + 1, filename, permissive)
  IN IF I > Len(Reps) THEN [ok |-> TRUE, nodes |-> nodes, done |-> Len(Reps)]
     ELSE step(replace(nodes, Reps[I], filename))

(***************************************************************************)
(* SymbolMatcher::JSONLoaderHandler.  A JSON array entry is [isString,     *)
(* text]; a field is [shape, items].                                       *)
(***************************************************************************)
LoadOk(M)       == [st |-> "ok", err |-> "", M |-> M, Out |-> <<>>]
LoadErr(M, msg) == [st |-> "err", err |-> msg, M |-> M, Out |-> <<>>]
LoadDead(M, st) == [st |-> st, err |-> "", M |-> M, Out |-> <<>>]

\* The array loop of loadSubpatterns: [st, err, M, Out].
RECURSIVE loadSubpatternItems(_, _, _, _, _)
loadSubpatternItems(M, items, Out, permissive, ub) ==
  LET e == Head(items)
      push(c) ==
        IF c.st = "err" THEN LoadErr(c.M, c.err)
        ELSE IF c.st # "ok" THEN LoadDead(c.M, c.st)
        ELSE loadSubpatternItems(c.M, Tail(items), Append(Out, c.id), permissive, ub)
  IN IF items = <<>> THEN [LoadOk(M) EXCEPT !.Out = Out]
     ELSE IF ~e.isString
       THEN IF permissive THEN loadSubpatternItems(M, Tail(items), Out, permissive, ub)
            ELSE LoadErr(M, "pattern is not a string")
     ELSE push(compilePattern(M, e.text, ub))

\* loadSubpatterns(patterns, name, Out): a field that is a string takes
\* the body of the loop once.
loadSubpatterns(M, patterns, name, permissive, ub) ==
  LET field == patterns[name]
  IN CASE field.shape = "absent" -> LoadOk(M)
       [] field.shape \in {"array", "string"} ->
            loadSubpatternItems(M, field.items, <<>>, permissive, ub)
       [] OTHER ->
            IF ~permissive THEN LoadErr(M, "field is not an array or string")
            ELSE LoadOk(M)

Range(seq) == {seq[i] : i \in 1..Len(seq)}

\* The loadSubpatterns calls of loadPatterns(json::Object&) in their
\* order, up to the first that fails: [st, err, M, Out], Out the lists
\* filled.
RECURSIVE loadSubpatternsFor(_, _, _, _, _, _)
loadSubpatternsFor(M, patterns, names, Outs, permissive, ub) ==
  LET filled(r) ==
        IF r.st # "ok" THEN r
        ELSE loadSubpatternsFor(r.M, patterns, Tail(names), Append(Outs, r.Out),
                                permissive, ub)
  IN IF names = <<>> THEN [LoadOk(M) EXCEPT !.Out = Outs]
     ELSE filled(loadSubpatterns(M, patterns, Head(names), permissive, ub))

\* A loadPatterns(json::Object&) that gives the patterns of "all" to the
\* constructors only.
loadPatternsObject_AllToCtors(M, patterns, permissive, ub) ==
  LET insert(r, Ctors, Dtors, All) ==
        IF Ctors = <<>> /\ Dtors = <<>> /\ All = <<>>
          THEN LoadErr(r.M, "no patterns found in config (ctor/dtor/all)")
        ELSE LoadOk([r.M EXCEPT
               !.CtorPatterns = @ \cup Range(Ctors) \cup Range(All),
               !.DtorPatterns = @ \cup Range(Dtors)])
      loaded(r) == IF r.st # "ok" THEN r
                   ELSE insert(r, r.Out[1], r.Out[2], r.Out[3])
  IN loaded(loadSubpatternsFor(M, patterns, <<"ctor", "dtor", "all">>, <<>>,
                               permissive, ub))

\* loadPatterns(json::Object&)
loadPatternsObject(M, patterns, permissive, ub) ==
  LET insert(r, Ctors, Dtors, All) ==
        IF Ctors = <<>> /\ Dtors = <<>> /\ All = <<>>
          THEN LoadErr(r.M, "no patterns found in config (ctor/dtor/all)")
        ELSE LoadOk([r.M EXCEPT
               !.CtorPatterns = @ \cup Range(Ctors) \cup Range(All),
               !.DtorPatterns = @ \cup Range(Dtors) \cup Range(All)])
      loaded(r) == IF r.st # "ok" THEN r
                   ELSE insert(r, r.Out[1], r.Out[2], r.Out[3])
  IN loaded(loadSubpatternsFor(M, patterns, <<"ctor", "dtor", "all">>, <<>>,
                               permissive, ub))

\* loadPattern: compile, then addAll.
loadPattern(M, pattern, ub) ==
  LET addAll(c) ==
        IF c.st = "err" THEN LoadErr(c.M, c.err)
        ELSE IF c.st # "ok" THEN LoadDead(c.M, c.st)
        ELSE LoadOk([c.M EXCEPT !.CtorPatterns = @ \cup {c.id},
                                !.DtorPatterns = @ \cup {c.id}])
  IN addAll(compilePattern(M, pattern, ub))

\* loadPatterns(json::Array&)
RECURSIVE loadPatternsArray(_, _, _, _)
loadPatternsArray(M, items, permissive, ub) ==
  LET e == Head(items)
      loaded(r) ==
        IF r.st = "err" /\ ~permissive THEN r
        ELSE IF r.st \notin {"ok", "err"} THEN r
        ELSE loadPatternsArray(r.M, Tail(items), permissive, ub)
  IN IF items = <<>> THEN LoadOk(M)
     ELSE IF ~e.isString
       THEN IF permissive THEN loadPatternsArray(M, Tail(items), permissive, ub)
            ELSE LoadErr(M, "pattern is not a string")
     ELSE loaded(loadPattern(M, e.text, ub))

\* loadFilePaths / loadFilePath: an entry is [isString, fs], fs what the
\* file system says of the resolved path.  [st, n], n the files put out.
RECURSIVE loadFilePaths(_, _, _)
loadFilePaths(items, n, permissive) ==
  LET e == Head(items)
  IN IF items = <<>> THEN [st |-> "ok", n |-> n]
     ELSE IF ~e.isString
       THEN IF permissive THEN loadFilePaths(Tail(items), n, permissive)
            ELSE [st |-> "err", n |-> n]
     ELSE IF e.fs = "error" THEN [st |-> "err", n |-> n]
     ELSE IF e.fs = "file" THEN loadFilePaths(Tail(items), n + 1, permissive)
     ELSE IF ~permissive THEN [st |-> "err", n |-> n]
     ELSE loadFilePaths(Tail(items), n, permissive)

\* JSONLoaderHandler::load: [st, err, M, files].
load(M, cfg, permissive, ub) ==
  LET files == CASE cfg.files.shape = "array" ->
                      loadFilePaths(cfg.files.items, 0, permissive)
                 [] cfg.files.shape = "string" ->
                      loadFilePaths(cfg.files.items, 0, permissive)
                 [] OTHER -> [st |-> "err", n |-> 0]
      out(r, n) == [st |-> r.st, err |-> r.err, M |-> r.M, files |-> n]
  IN IF cfg.root # "object" THEN out(LoadErr(M, "root node is not an object"), 0)
     ELSE IF cfg.OutFiles /\ files.st # "ok"
       THEN out(LoadErr(M, "files"), files.n)
     ELSE out(CASE cfg.patterns.shape = "object" ->
                     loadPatternsObject(M, cfg.patterns, permissive, ub)
                [] cfg.patterns.shape = "array" ->
                     loadPatternsArray(M, cfg.patterns.items, permissive, ub)
                [] cfg.patterns.shape = "string" ->
                     loadPattern(M, cfg.patterns.items[1].text, ub)
                [] OTHER -> LoadErr(M, "'patterns' does not exist"),
              IF cfg.OutFiles THEN files.n ELSE 0)

(***************************************************************************)
(* The inputs the model draws from.                                        *)
(***************************************************************************)
\* How many pattern texts one matcher is given.
MaxPatterns == 2

Filenames == {"bindings/CCScheduler.cpp", "bindings/CCLightning.cpp"}

NameLists ==
  { <<>>,
    <<"CCScheduler">>,
    <<"ICCScheduler">>,
    <<"cocos2d", "CCScheduler">>,
    <<"cocos2d", "CCLightning">>,
    <<"x", "y", "z", "CCScheduler">>,
    <<"x", "y", "z", "ICCScheduler">>,
    <<"x", "y", "z", "ICCScheduler", "w">>,
    <<"x", "a", "b", "ICCScheduler">>,
    <<"ns", "a", "b", "ICCScheduler">>,
    <<"abcX">>,
    <<"a", "b">> }

\* The scope names of the functions a module is given.
FeatureNames ==
  {<<"CCScheduler">>, <<"cocos2d", "CCScheduler">>, <<"cocos2d", "CCLightning">>,
   <<"a", "b">>, <<"x", "y", "z", "ICCScheduler">>}

SymbolKinds == {"Constructor", "Destructor", "Other"}
Variants == {0, 1}

Str(text) == [isString |-> TRUE, text |-> text]
NotStr == [isString |-> FALSE, text |-> ""]
Field(shape, items) == [shape |-> shape, items |-> items]
Absent == Field("absent", <<>>)
OneFile == Field("array", <<[isString |-> TRUE, fs |-> "file"]>>)
PatternsObject(ctor, dtor, all) ==
  [shape |-> "object", ctor |-> ctor, dtor |-> dtor, all |-> all, items |-> <<>>]
PatternsList(shape, items) ==
  [shape |-> shape, ctor |-> Absent, dtor |-> Absent, all |-> Absent, items |-> items]
Config(root, files, patterns) ==
  [readable |-> TRUE, root |-> root, OutFiles |-> TRUE, files |-> files,
   patterns |-> patterns]

\* No configuration: the record of a call that is given none.
NoConfig == Config("", Absent, PatternsList("missing", <<>>))

Configs ==
  { Config("object", OneFile,
      PatternsObject(Field("array", <<Str("**::{file.stem}")>>),
                     Field("string", <<Str("a::b")>>), Absent)),
    Config("object", OneFile,
      PatternsObject(Absent, Absent,
                     Field("array", <<Str("[[:lower:]]+::**::{file.stem}"),
                                      Str("**::a::b::I{file.stem}")>>))),
    Config("object", OneFile,
      PatternsList("array", <<Str("x::/y+/::z::I?{file.stem}"), NotStr,
                              Str("a::**::b::**::c")>>)),
    Config("object", OneFile, PatternsList("string", <<Str("I{file.stem}")>>)),
    Config("object", OneFile,
      PatternsObject(Field("string", <<Str("**::{file.stem}")>>), Absent,
                     Field("array", <<Str("a::b")>>))),
    Config("object", OneFile,
      PatternsObject(Field("array", <<Str("a::**::b::**::c"), Str("a::b")>>),
                     Absent, Absent)),
    Config("object", Field("missing", <<>>), PatternsList("missing", <<>>)),
    Config("object", OneFile, PatternsObject(Absent, Field("other", <<>>), Absent)),
    [Config("array", OneFile, PatternsList("missing", <<>>)) EXCEPT !.readable = FALSE] }

(***************************************************************************)
(* driver/SymbolFeatures.hpp and driver/NameClassifier.cpp: the demangler  *)
(* adapters.  The demanglers themselves are LLVM's; what they hand back, a *)
(* tree of nodes or a parse error, is an input.                            *)
(***************************************************************************)
\* SymbolFeatures after clear()
NoFeatures ==
  [NestedNames |-> <<>>, SymKind |-> "Invalid", Variant |-> -1, HasBaseName |-> FALSE]

setBase(F, name) ==
  [F EXCEPT !.NestedNames =
              Append(IF F.HasBaseName THEN SubSeq(@, 1, Len(@) - 1) ELSE @, name),
            !.HasBaseName = TRUE]

addNested(F, name) ==
  IF F.HasBaseName THEN F ELSE [F EXCEPT !.NestedNames = Append(@, name)]

\* A classification: the kind returned and the features left in *Out (F is
\* of no account when the caller gave no Out).
Classified(K, F) == [K |-> K, F |-> F]

\* Nodes of the Itanium demangler.
NameType(name) == [kind |-> "KNameType", name |-> name]
NestedName(Qual, Name) == [kind |-> "KNestedName", Qual |-> Qual, Name |-> Name]
CtorDtorName(Basename, IsDtor, Variant) ==
  [kind |-> "KCtorDtorName", Basename |-> Basename, IsDtor |-> IsDtor,
   Variant |-> Variant]
ItaniumNode(kind) == [kind |-> kind]

IsNamedKind(K) == K \in {"KNestedName", "KNameType"}
IsNamedKindEx(K) == IsNamedKind(K) \/ K = "KSpecialName"

\* gnu::AddNestedNameToFeatures(N, Out): [ok, Out], Out the list of names.
RECURSIVE AddNestedNameToFeatures(_, _)
AddNestedNameToFeatures(N, Out) ==
  LET andName(q) == IF ~q.ok THEN q ELSE AddNestedNameToFeatures(N.Name, q.Out)
  IN IF N.kind = "KNameType" THEN [ok |-> TRUE, Out |-> Append(Out, N.name)]
     ELSE IF N.kind # "KNestedName" THEN [ok |-> FALSE, Out |-> Out]
     ELSE andName(AddNestedNameToFeatures(N.Qual, Out))

\* gnu::AddBaseNameToFeatures(N, Out): [ok, F]
AddBaseNameToFeatures(N, F) ==
  LET nested(q) ==
        IF q.ok THEN [ok |-> TRUE,
                      F |-> setBase([F EXCEPT !.NestedNames = q.Out], N.Name.name)]
        ELSE [ok |-> FALSE, F |-> [F EXCEPT !.NestedNames = q.Out]]
  IN IF N.kind = "KNameType" THEN [ok |-> TRUE, F |-> setBase(F, N.name)]
     ELSE IF N.kind = "KNestedName"
       THEN nested(AddNestedNameToFeatures(N.Qual, F.NestedNames))
     ELSE [ok |-> FALSE, F |-> F]

\* gnu::ClassifyFunction(ASTVal, Out, Name); the tree is there (classify
\* has returned for a null one).
gnu_ClassifyFunction(ASTVal, hasOut, F) ==
  LET SetSymbol(K) == Classified(K, [F EXCEPT !.SymKind = K])
      CDName == ASTVal.Name
      matched(b) ==
        IF ~b.ok THEN Classified("Invalid", NoFeatures)
        ELSE Classified("Invalid",
               [b.F EXCEPT !.SymKind = IF CDName.IsDtor THEN "Destructor"
                                       ELSE "Constructor",
                           !.Variant = CDName.Variant])
  IN IF ~IsNamedKindEx(ASTVal.kind) THEN Classified("Invalid", F)
     ELSE IF ASTVal.kind = "KNameType" THEN SetSymbol("Ignorable")
     ELSE IF ASTVal.kind = "KSpecialName" THEN SetSymbol("Other")
     ELSE IF ASTVal.Name.kind # "KCtorDtorName" THEN SetSymbol("Ignorable")
     ELSE IF ~hasOut THEN Classified("Invalid", F)
     ELSE matched(AddBaseNameToFeatures(CDName.Basename, F))

\* What a demangler makes of a symbol.
EmptySymbol == [parse |-> "empty"]
Unparseable == [parse |-> "error"]
Parsed(AST) == [parse |-> "ok", AST |-> AST]

\* ItaniumClassifier::classify(Sym, Out); F is *Out as the caller left it.
ItaniumClassifier_classify(Sym, hasOut, F) ==
  IF Sym.parse # "ok" THEN Classified("Invalid", NoFeatures)
  ELSE gnu_ClassifyFunction(Sym.AST, hasOut, NoFeatures)

\* Nodes of the Microsoft demangler; Class holds the linked class node, if
\* there is one.
NamedIdentifier(Name) ==
  [kind |-> "NamedIdentifier", Name |-> Name, Class |-> <<>>, IsDestructor |-> FALSE]
StructorIdentifier(Class, IsDestructor) ==
  [kind |-> "StructorIdentifier", Name |-> "", Class |-> Class,
   IsDestructor |-> IsDestructor]
IntrinsicFunctionIdentifier(Name) ==
  [kind |-> "IntrinsicFunctionIdentifier", Name |-> Name, Class |-> <<>>,
   IsDestructor |-> FALSE]
ConversionOperatorIdentifier ==
  [kind |-> "ConversionOperatorIdentifier", Name |-> "", Class |-> <<>>,
   IsDestructor |-> FALSE]
SymbolNode(kind, Components) == [kind |-> kind, Components |-> Components]

\* An EmbeddedStringView: a pointer to a name, or null, and a bit.
EmbeddedStringView(has, val, int) == [has |-> has, val |-> val, int |-> int]

\* msvc::NameGetter::GetRealNamePart(NamePart); a conversion operator is
\* one whose target type the demangler left out.
RECURSIVE GetRealNamePart(_)
GetRealNamePart(NamePart) ==
  LET setInt(Out) == [Out EXCEPT !.int = NamePart.IsDestructor]
  IN IF NamePart.kind \in {"NamedIdentifier", "IntrinsicFunctionIdentifier"}
       THEN EmbeddedStringView(TRUE, NamePart.Name, FALSE)
     ELSE IF NamePart.kind = "StructorIdentifier" /\ NamePart.Class # <<>>
       THEN setInt(GetRealNamePart(NamePart.Class[1]))
     ELSE EmbeddedStringView(FALSE, "", FALSE)

GetNamePart(Part) ==
  LET name(EName) == IF EName.has THEN EName.val ELSE "!"
  IN name(GetRealNamePart(Part))

RECURSIVE addNestedAll(_, _)
addNestedAll(F, QualName) ==
  IF QualName = <<>> THEN F
  ELSE addNestedAll(addNested(F, GetNamePart(Head(QualName))), Tail(QualName))

\* msvc::ClassifyFunction(ASTVal, Out, Name)
msvc_ClassifyFunction(ASTVal, hasOut, F) ==
  LET Components == ASTVal.Components
      LastNode == Components[Len(Components)]
      QualName == SubSeq(Components, 1, Len(Components) - 1)
      WriteFeatures(K, BName) ==
        Classified(K,
          setBase(addNestedAll([F EXCEPT !.SymKind = K], QualName),
                  IF BName.has THEN BName.val ELSE GetNamePart(LastNode)))
      structor(EName) ==
        WriteFeatures(IF EName.int THEN "Constructor" ELSE "Destructor", EName)
  IN IF ASTVal.kind = "FunctionSymbol" THEN Classified("Invalid", F)
     ELSE IF Components = <<>> THEN Classified("Invalid", F)
     ELSE IF LastNode.kind = "NamedIdentifier"
       THEN Classified("Ignorable", [F EXCEPT !.SymKind = "Ignorable"])
     ELSE IF LastNode.kind # "StructorIdentifier"
       THEN WriteFeatures("Other", EmbeddedStringView(FALSE, "", FALSE))
     ELSE IF LastNode.Class = <<>> THEN Classified("Invalid", F)
     ELSE structor(GetRealNamePart(LastNode.Class[1]))

\* MSVCClassifier::classify(Sym, Out)
MSVCClassifier_classify(Sym, hasOut, F) ==
  IF Sym.parse # "ok" THEN Classified("Invalid", NoFeatures)
  ELSE msvc_ClassifyFunction(Sym.AST, hasOut, NoFeatures)

(***************************************************************************)
(* The state: one SymbolMatcher, the process it lives in, and a record of  *)
(* the call made last.                                                     *)
(***************************************************************************)
VARIABLES
  nodes,            \* the pattern nodes in the arena, in allocation order
  Replacements,     \* the replacers, in registration order
  PatternMappings,  \* pattern text -> node (0 for a null entry)
  CtorPatterns,     \* nodes consulted for constructors
  DtorPatterns,     \* nodes consulted for destructors
  CurrentFilename,  \* std::optional<StringRef>
  ConfigFilename,   \* whether a config file has been loaded
  Permissive,       \* fixed at construction
  status,           \* "running", or "fault" / "hang" once the process is lost
  bound,            \* how many replacers the latest setFilename rewrote
  last              \* the latest call: what was asked and what came back

vars == <<nodes, Replacements, PatternMappings, CtorPatterns, DtorPatterns,
          CurrentFilename, ConfigFilename, Permissive, status, bound, last>>

matcher == <<nodes, Replacements, PatternMappings, CtorPatterns, DtorPatterns,
             CurrentFilename, ConfigFilename>>

TheMatcher ==
  [nodes |-> nodes, Replacements |-> Replacements,
   PatternMappings |-> PatternMappings,
   CtorPatterns |-> CtorPatterns, DtorPatterns |-> DtorPatterns]

NoCall ==
  [op |-> "none", text |-> "", Names |-> <<>>, SymKind |-> "", Variant |-> 0,
   id |-> 0, res |-> "", err |-> "", prev |-> "", had |-> 0,
   before |-> <<0, 0>>, cfg |-> NoConfig,
   family |-> "", parts |-> <<>>, prop |-> "", toks |-> <<>>,
   Sym |-> EmptySymbol, out |-> "", Feats |-> NoFeatures]

Call(op) == [NoCall EXCEPT !.op = op]

\* SymbolMatcher(bool Permissive)
Init ==
  /\ nodes = <<>>
  /\ Replacements = <<>>
  /\ PatternMappings = <<>>
  /\ CtorPatterns = {}
  /\ DtorPatterns = {}
  /\ CurrentFilename = [has |-> FALSE, val |-> ""]
  /\ ConfigFilename = FALSE
  /\ Permissive \in BOOLEAN
  /\ status = "running"
  /\ bound = 0
  /\ last = NoCall

\* The matcher fields a compile or a load leaves behind.
Install(M) ==
  /\ nodes' = M.nodes
  /\ Replacements' = M.Replacements
  /\ PatternMappings' = M.PatternMappings
  /\ CtorPatterns' = M.CtorPatterns
  /\ DtorPatterns' = M.DtorPatterns

StatusAfter(st) == IF st \in {"fault", "hang"} THEN st ELSE "running"

Texts(cfg) ==
  {e.text : e \in {e \in Range(cfg.patterns.items) \cup Range(cfg.patterns.ctor.items)
                        \cup Range(cfg.patterns.dtor.items)
                        \cup Range(cfg.patterns.all.items) : e.isString}}

\* SymbolMatcher::compilePattern(Pat)
CompilePattern(Pat) ==
  /\ status = "running"
  /\ Cardinality(DOMAIN PatternMappings \cup {Pat}) <= MaxPatterns
  /\ \E c \in Outcomes([ub \in UBChoices |-> compilePattern(TheMatcher, Pat, ub)]) :
       /\ Install(c.M)
       /\ status' = StatusAfter(c.st)
       /\ last' = [Call("compilePattern") EXCEPT
                     !.text = Pat, !.res = c.st, !.err = c.err, !.id = c.id,
                     !.had = IF Pat \in DOMAIN PatternMappings
                               THEN PatternMappings[Pat] ELSE 0,
                     !.before = <<Len(nodes), Len(Replacements)>>]
  /\ UNCHANGED <<CurrentFilename, ConfigFilename, Permissive, bound>>

\* SymbolMatcher::setFilename(Filename)
SetFilename(Filename) ==
  /\ status = "running"
  /\ LET replaced(r) ==
           /\ nodes' = r.nodes
           /\ bound' = r.done
           /\ last' = [Call("setFilename") EXCEPT
                         !.text = Filename, !.res = IF r.ok THEN "ok" ELSE "err",
                         !.prev = IF CurrentFilename.has THEN CurrentFilename.val
                                  ELSE ""]
     IN replaced(setFilenameFrom(nodes, Replacements, 1, Filename, Permissive))
  /\ CurrentFilename' = [has |-> TRUE, val |-> Filename]
  /\ UNCHANGED <<Replacements, PatternMappings, CtorPatterns, DtorPatterns,
                 ConfigFilename, Permissive, status>>

\* A loadSymbolsFromJSONFile that does not look at ConfigFilename.
LoadSymbolsFromJSONFile_Again(cfg) ==
  /\ status = "running"
  /\ cfg.readable
  /\ Cardinality(DOMAIN PatternMappings \cup Texts(cfg)) <= MaxPatterns
  /\ \E r \in Outcomes([ub \in UBChoices |-> load(TheMatcher, cfg, Permissive, ub)]) :
       /\ Install(r.M)
       /\ ConfigFilename' = (ConfigFilename \/ r.st = "ok")
       /\ CurrentFilename' = CurrentFilename
       /\ status' = StatusAfter(r.st)
       /\ last' = [Call("loadSymbolsFromJSONFile") EXCEPT
                     !.res = r.st, !.err = r.err, !.id = r.files, !.cfg = cfg,
                     !.before = <<Len(nodes), Len(Replacements)>>]
  /\ UNCHANGED <<Permissive, bound>>

\* SymbolMatcher::loadSymbolsFromJSONFile(ConfigFile, &OutFiles)
LoadSymbolsFromJSONFile(cfg) ==
  /\ status = "running"
  /\ Cardinality(DOMAIN PatternMappings \cup Texts(cfg)) <= MaxPatterns
  /\ \E r \in (IF ConfigFilename \/ ~cfg.readable THEN {LoadOk(TheMatcher)}
               ELSE Outcomes([ub \in UBChoices |->
                                load(TheMatcher, cfg, Permissive, ub)])) :
       IF ConfigFilename \/ ~cfg.readable
         THEN /\ UNCHANGED matcher
              /\ status' = status
              /\ last' = [Call("loadSymbolsFromJSONFile") EXCEPT
                            !.res = "err", !.cfg = cfg,
                            !.err = IF ConfigFilename
                                      THEN "config file has already been loaded"
                                      ELSE "file"]
         ELSE /\ Install(r.M)
              /\ ConfigFilename' = (r.st = "ok")
              /\ CurrentFilename' = CurrentFilename
              /\ status' = StatusAfter(r.st)
              /\ last' = [Call("loadSymbolsFromJSONFile") EXCEPT
                            !.res = r.st, !.err = r.err, !.id = r.files, !.cfg = cfg,
                            !.before = <<Len(nodes), Len(Replacements)>>]
  /\ UNCHANGED <<Permissive, bound>>

\* Pattern::matchSymbol(Syms) on the node compilePattern handed out for
\* Pat.
MatchSymbol(Pat, Syms) ==
  /\ status = "running"
  /\ Pat \in DOMAIN PatternMappings
  /\ PatternMappings[Pat] # 0
  /\ LET outcomes(m) == IF m = "UB" THEN {"true", "false", "fault"} ELSE {m}
     IN \E res \in outcomes(matchSymbol(nodes, PatternMappings[Pat], Syms)) :
          /\ status' = StatusAfter(res)
          /\ last' = [Call("matchSymbol") EXCEPT
                        !.id = PatternMappings[Pat], !.Names = Syms, !.res = res]
  /\ UNCHANGED <<matcher, Permissive, bound>>

\* SymbolMatcher::match(Features)
Match(SymKind, Variant, Names) ==
  /\ status = "running"
  /\ LET Patterns == IF SymKind = "Constructor" THEN CtorPatterns ELSE DtorPatterns
         outcomes(ms) == (ms \ {"UB"})
                         \cup (IF "UB" \in ms THEN {"true", "false", "fault"} ELSE {})
     IN \E res \in (IF SymKind \notin {"Constructor", "Destructor"} THEN {"false"}
                    ELSE outcomes(MatchAgainst(nodes, Patterns, Names))) :
          /\ status' = StatusAfter(res)
          /\ last' = [Call("match") EXCEPT
                        !.SymKind = SymKind, !.Variant = Variant,
                        !.Names = Names, !.res = res]
  /\ UNCHANGED <<matcher, Permissive, bound>>

\* A loadAndUpdateRefsFromModule that asks match about every constructor
\* and destructor, variant 0 included.
LoadAndUpdateRefsFromModule_AnyVariant(SymKind, Variant, Names, hasComdat) ==
  /\ status = "running"
  /\ LET Patterns == IF SymKind = "Constructor" THEN CtorPatterns ELSE DtorPatterns
         asked == SymKind \in {"Constructor", "Destructor"}
         outcomes(ms) == (ms \ {"UB"})
                         \cup (IF "UB" \in ms THEN {"true", "false", "fault"} ELSE {})
     IN \E m \in (IF ~asked THEN {"false"}
                  ELSE outcomes(MatchAgainst(nodes, Patterns, Names))) :
          /\ status' = StatusAfter(m)
          /\ last' = [Call("loadAndUpdateRefsFromModule") EXCEPT
                        !.SymKind = SymKind, !.Variant = Variant, !.Names = Names,
                        !.res = IF m = "fault" THEN "fault"
                                ELSE IF m = "true" /\ ~hasComdat THEN "located"
                                ELSE "skipped"]
  /\ UNCHANGED <<matcher, Permissive, bound>>

\* DeBaser::loadAndUpdateRefsFromModule over a module of one function with
\* the given features: whether the function is put in LocatedRefs.
LoadAndUpdateRefsFromModule(SymKind, Variant, Names, hasComdat) ==
  /\ status = "running"
  /\ LET Patterns == IF SymKind = "Constructor" THEN CtorPatterns ELSE DtorPatterns
         asked == SymKind \in {"Constructor", "Destructor"} /\ Variant # 0
         outcomes(ms) == (ms \ {"UB"})
                         \cup (IF "UB" \in ms THEN {"true", "false", "fault"} ELSE {})
     IN \E m \in (IF ~asked THEN {"false"}
                  ELSE outcomes(MatchAgainst(nodes, Patterns, Names))) :
          /\ status' = StatusAfter(m)
          /\ last' = [Call("loadAndUpdateRefsFromModule") EXCEPT
                        !.SymKind = SymKind, !.Variant = Variant, !.Names = Names,
                        !.res = IF m = "fault" THEN "fault"
                                ELSE IF m = "true" /\ ~hasComdat THEN "located"
                                ELSE "skipped"]
  /\ UNCHANGED <<matcher, Permissive, bound>>

(***************************************************************************)
(* The lexer and the file properties on their own, as tests/TestLexPattern *)
(* calls them: one call a run, on a text put together from a few pieces.   *)
(***************************************************************************)
\* How many pieces a segment is put together from, how many segments a
\* pattern, and how many replacement bodies a segment is given.
MaxPieces == 4
MaxSegments == 4
MaxBodies == 9

RECURSIVE Join(_, _)
Join(parts, sep) ==
  IF parts = <<>> THEN ""
  ELSE IF Len(parts) = 1 THEN parts[1]
  ELSE parts[1] \o sep \o Join(Tail(parts), sep)

SeqsUpTo(S, n) == UNION {[1..k -> S] : k \in 1..n}

LexInput(family, lead, parts, sep) ==
  [Call("lexInput") EXCEPT !.family = family, !.parts = parts,
                           !.text = lead \o Join(parts, sep)]

\* One regexish segment: atoms, quantifiers and the wildcard.
QuantifierPieces == {"I", "?", "*", "+", "[a-z]", "\\d", "{file.stem}", "."}
QuantifierInputs ==
  {LexInput("quantifier", "", p, "") : p \in SeqsUpTo(QuantifierPieces, MaxPieces)}

\* Patterns of standalone and plain segments, with and without the leading
\* scope resolution.
StandaloneSegments == {"**", "@", "xyz", "I*v"}
StandaloneInputs ==
  {LexInput("standalone", lead, p, "::") :
     lead \in {"", "::"}, p \in SeqsUpTo(StandaloneSegments, MaxSegments)}

\* One character class holding one range.
RangeEnds == {"A", "Z", "a", "z", "0", "9", "_"}
RangeInputs ==
  {LexInput("range", "", <<open, X, "-", Y, "]">>, "") :
     open \in {"[", "[^"}, X \in RangeEnds, Y \in RangeEnds}

\* One segment of replacements: the first k of the bodies, in either order,
\* after an identifier or not, and followed by nothing, by the body it began
\* with, or by a quantifier.
Bodies ==
  <<"{file}", "{file.stem}", "{file.dir}", "{file.ext}",
    "{input}", "{input.stem}", "{input.dir}", "{input.ext}", "{FILE}", "{INPUT}">>
Reverse(seq) == [i \in 1..Len(seq) |-> seq[Len(seq) + 1 - i]]
BodyRuns ==
  {SubSeq(Bodies, 1, k) : k \in 1..MaxBodies}
    \cup {Reverse(SubSeq(Bodies, 1, k)) : k \in 1..MaxBodies}
ReplacementInputs ==
  {LexInput("replacement", "", head \o run \o tail, "") :
     head \in {<<>>, <<"I">>}, run \in BodyRuns,
     tail \in {<<>>, <<"{file}">>, <<"+">>}}

\* Patterns without replacements: plain, padded, standalone, slashed,
\* escaped, class and parenthesised segments.
MaxRoundTrip == 3
RoundTripSegments == {"x", " y ", "**", "@", "/y+/", "a\\d", "[a-z]+", "(a)"}
RoundTripInputs ==
  {LexInput("roundtrip", lead, p, "::") :
     lead \in {"", "::"}, p \in SeqsUpTo(RoundTripSegments, MaxRoundTrip)}

LexInputs == QuantifierInputs \cup StandaloneInputs \cup RangeInputs
               \cup ReplacementInputs \cup RoundTripInputs

\* The filenames a FilePropertyCache is made for, and the properties asked.
Directories == {"", "dir/", "a/b/", "/"}
Leaves == {"a", "a.gz", "a.tar.gz", "CCScheduler.cpp", ".hidden", "a.", "a.b.c.d"}
Properties == {"", kStem, kDir, kExt, "name"}
PropertyInputs ==
  {[Call("propertyInput") EXCEPT !.text = d \o l, !.parts = <<d, l>>,
                                 !.prop = prop] :
     d \in Directories, l \in Leaves, prop \in Properties}

\* A fresh process that is about to make one of those calls.
InitLexer ==
  /\ nodes = <<>>
  /\ Replacements = <<>>
  /\ PatternMappings = <<>>
  /\ CtorPatterns = {}
  /\ DtorPatterns = {}
  /\ CurrentFilename = [has |-> FALSE, val |-> ""]
  /\ ConfigFilename = FALSE
  /\ Permissive = FALSE
  /\ status = "running"
  /\ bound = 0
  /\ last \in LexInputs \cup PropertyInputs

\* lexTokensForPattern(Pat, Toks, BP) on the text drawn.
Lex ==
  /\ status = "running"
  /\ last.op = "lexInput"
  /\ LET lexed(r) ==
           /\ last' = [last EXCEPT !.op = "lex", !.res = r.st, !.err = r.err,
                                   !.toks = r.toks]
           /\ status' = StatusAfter(r.st)
     IN lexed(lexTokensForPattern(last.text, NoThis))
  /\ UNCHANGED <<matcher, Permissive, bound>>

\* FilePropertyCache(filename).getPropertyRaw(prop) on the pair drawn.
GetPropertyRaw ==
  /\ status = "running"
  /\ last.op = "propertyInput"
  /\ LET got(r) ==
           last' = [last EXCEPT !.op = "getPropertyRaw",
                               !.res = IF r.ok THEN "ok" ELSE "err", !.prev = r.val]
     IN got(getPropertyRaw(last.text, last.prop))
  /\ UNCHANGED <<matcher, Permissive, status, bound>>

(***************************************************************************)
(* A caller of the demangler adapters: the symbols it classifies, and what *)
(* it passes for Out.                                                      *)
(***************************************************************************)
\* The qualifier of a constructor or destructor name, which is also the
\* basename its CtorDtorName node points at.
ItaniumQuals ==
  { NameType("Foo"),
    NestedName(NameType("ns"), NameType("Foo")),
    NestedName(NestedName(NameType("a"), NameType("b")), NameType("Foo")),
    ItaniumNode("KNameWithTemplateArgs"),
    NestedName(ItaniumNode("KNameWithTemplateArgs"), NameType("Inner")) }

\* C1 C2 C3 and D0 D1 D2
CtorDtorVariants(IsDtor) == IF IsDtor THEN {0, 1, 2} ELSE {1, 2, 3}

ItaniumASTs ==
  { NameType("main"), ItaniumNode("KSpecialName"),
    ItaniumNode("KNameWithTemplateArgs"),
    NestedName(NameType("Foo"), NameType("bar")) }
  \cup { NestedName(Q, CtorDtorName(Q, d, v)) :
           Q \in ItaniumQuals,
           d \in BOOLEAN, v \in CtorDtorVariants(TRUE) \cup CtorDtorVariants(FALSE) }

ItaniumSymbols ==
  {EmptySymbol, Unparseable}
  \cup {Parsed(AST) : AST \in {a \in ItaniumASTs :
          a.kind = "KNestedName" /\ a.Name.kind = "KCtorDtorName"
            => a.Name.Variant \in CtorDtorVariants(a.Name.IsDtor)}}

\* The components of a qualified name; the demangler links a structor
\* identifier to the component before it.
MSVCQualNames ==
  { <<NamedIdentifier("main")>>,
    <<NamedIdentifier("Foo"), NamedIdentifier("bar")>>,
    <<NamedIdentifier("Foo"), IntrinsicFunctionIdentifier("operator new")>>,
    <<NamedIdentifier("Foo"), ConversionOperatorIdentifier>> }
  \cup { Q \o <<StructorIdentifier(<<Q[Len(Q)]>>, d)>> :
           Q \in {<<NamedIdentifier("Foo")>>,
                  <<NamedIdentifier("ns"), NamedIdentifier("Foo")>>},
           d \in BOOLEAN }

MSVCSymbolKinds == {"FunctionSymbol", "VariableSymbol"}

MSVCSymbols ==
  {EmptySymbol, Unparseable}
  \cup {Parsed(SymbolNode(k, Q)) : k \in MSVCSymbolKinds, Q \in MSVCQualNames}

\* What Out holds before the call: nothing (a null pointer), features just
\* constructed, or those of the symbol classified before.
Outs == {"null", "fresh", "stale"}
StaleFeatures ==
  [NestedNames |-> <<"ns", "Old">>, SymKind |-> "Constructor", Variant |-> 1,
   HasBaseName |-> TRUE]

ClassifyInput(family, Sym, out) ==
  [Call("classifyInput") EXCEPT
     !.family = family, !.Sym = Sym, !.out = out,
     !.Feats = IF out = "stale" THEN StaleFeatures ELSE NoFeatures]

ClassifyInputs ==
  {ClassifyInput("itanium", Sym, out) : Sym \in ItaniumSymbols, out \in Outs}
  \cup {ClassifyInput("msvc", Sym, out) : Sym \in MSVCSymbols, out \in Outs}

InitClassifier ==
  /\ nodes = <<>>
  /\ Replacements = <<>>
  /\ PatternMappings = <<>>
  /\ CtorPatterns = {}
  /\ DtorPatterns = {}
  /\ CurrentFilename = [has |-> FALSE, val |-> ""]
  /\ ConfigFilename = FALSE
  /\ Permissive = FALSE
  /\ status = "running"
  /\ bound = 0
  /\ last \in ClassifyInputs

\* ItaniumClassifier::classify(Sym, Out) on the symbol drawn.
ItaniumClassify ==
  /\ status = "running"
  /\ last.op = "classifyInput"
  /\ last.family = "itanium"
  /\ LET classified(r) ==
           last' = [last EXCEPT !.op = "classify", !.res = r.K,
                                !.Feats = IF last.out = "null" THEN @ ELSE r.F]
     IN classified(ItaniumClassifier_classify(last.Sym, last.out # "null", last.Feats))
  /\ UNCHANGED <<matcher, Permissive, status, bound>>

\* MSVCClassifier::classify(Sym, Out) on the symbol drawn.
MSVCClassify ==
  /\ status = "running"
  /\ last.op = "classifyInput"
  /\ last.family = "msvc"
  /\ LET classified(r) ==
           last' = [last EXCEPT !.op = "classify", !.res = r.K,
                                !.Feats = IF last.out = "null" THEN @ ELSE r.F]
     IN classified(MSVCClassifier_classify(last.Sym, last.out # "null", last.Feats))
  /\ UNCHANGED <<matcher, Permissive, status, bound>>

\* The calls of a client that compiles patterns and matches names against
\* the nodes it is handed (tests/TestLexPattern.cpp).
NextPatterns ==
  \/ \E Pat \in PatternTexts : CompilePattern(Pat)
  \/ \E Filename \in Filenames : SetFilename(Filename)
  \/ \E Pat \in PatternTexts, Syms \in NameLists : MatchSymbol(Pat, Syms)

\* The calls of the tool: it loads its configuration, then names each module
\* and classifies the module's functions (DeBaser).
NextDriver ==
  \/ \E cfg \in Configs : LoadSymbolsFromJSONFile(cfg)
  \/ \E Filename \in Filenames : SetFilename(Filename)
  \/ \E k \in SymbolKinds, v \in Variants, Syms \in FeatureNames : Match(k, v, Syms)
  \/ \E k \in SymbolKinds, v \in Variants, Syms \in FeatureNames, c \in BOOLEAN :
       LoadAndUpdateRefsFromModule(k, v, Syms, c)

\* The calls of a client of the lexer and of the file properties
\* (tests/TestLexPattern.cpp).
NextLexer == Lex \/ GetPropertyRaw

\* The calls of a client of the demangler adapters.
NextClassifier == ItaniumClassify \/ MSVCClassify

Next == NextPatterns \/ NextDriver \/ NextLexer \/ NextClassifier

Spec == Init /\ [][Next]_vars
SpecPatterns == Init /\ [][NextPatterns]_vars
SpecDriver == Init /\ [][NextDriver]_vars
SpecLexer == InitLexer /\ [][NextLexer]_vars
SpecClassifier == InitClassifier /\ [][NextClassifier]_vars

(***************************************************************************)
(* Properties.  A property of a call reads the record of the latest call.  *)
(* Those about matching are stated for a matcher whose replacers have all  *)
(* been rewritten by the latest setFilename, the order of use section 6 of *)
(* the specification prescribes; a leaf compiled since then is still a     *)
(* placeholder.                                                            *)
(***************************************************************************)
CCScheduler == "bindings/CCScheduler.cpp"
CCLightning == "bindings/CCLightning.cpp"

AllBound == bound = Len(Replacements)

Compiled(Pat) == Pat \in DOMAIN PatternMappings /\ PatternMappings[Pat] # 0

IsCtorDtor(SymKind) == SymKind \in {"Constructor", "Destructor"}

PatternsFor(SymKind) == IF SymKind = "Constructor" THEN CtorPatterns ELSE DtorPatterns

SomeNodeMatches(SymKind, Names) ==
  \E id \in PatternsFor(SymKind) : matchSymbol(nodes, id, Names) = "true"

\* C1 as stated: match returns true exactly when the kind is ctor or dtor,
\* the variant is not 0 and some node of the set for that kind matches the
\* scope names; so never for variant 0 and never for another kind.
C1_MatchExcludesVariant0 ==
  (last.op = "match" /\ AllBound) =>
    (last.res = "true" <=>
       /\ IsCtorDtor(last.SymKind)
       /\ last.Variant # 0
       /\ SomeNodeMatches(last.SymKind, last.Names))

\* C1 amended: match returns true exactly when the kind is ctor or dtor and
\* some node of the set for that kind matches the scope names, whatever the
\* variant; it is loadAndUpdateRefsFromModule that passes over a function of
\* variant 0, or of another kind, before match is asked.
C1_MatchIgnoresVariant ==
  /\ (last.op = "match" /\ AllBound) =>
       (last.res = "true" <=>
          IsCtorDtor(last.SymKind) /\ SomeNodeMatches(last.SymKind, last.Names))
  /\ (last.op = "loadAndUpdateRefsFromModule"
        /\ (last.Variant = 0 \/ ~IsCtorDtor(last.SymKind))) =>
       last.res = "skipped"
  /\ (last.op = "loadAndUpdateRefsFromModule" /\ AllBound /\ last.res = "located") =>
       SomeNodeMatches(last.SymKind, last.Names)

\* match has said yes to a constructor of variant 0.
C1_Variant0Matched ==
  /\ last.op = "match"
  /\ AllBound
  /\ last.SymKind = "Constructor"
  /\ last.Variant = 0
  /\ last.res = "true"

\* What a replacer's leaf holds once it is rewritten for filename.
LeafHolds(Rep, filename) ==
  LET n == nodes[Rep.ThePattern]
  IN IF Rep.kind = "Proxy" THEN n.P = getPropertyRaw(filename, Rep.TheProp).val
     ELSE IF Rep.isRegex
       THEN n.RegExp = [has |-> TRUE, text |-> FormatPieces(Rep.Pieces, filename).val]
     ELSE n.P = FormatPieces(Rep.Pieces, filename).val

\* C2: after a successful setFilename(f), whatever filenames were set
\* before, every late-bound leaf holds the text made from the properties of
\* f; so with "**::{file.stem}", once CCLightning.cpp has replaced
\* CCScheduler.cpp, ["cocos2d","CCLightning"] matches and
\* ["cocos2d","CCScheduler"] does not.
C2_LeavesFollowLatestFilename ==
  /\ (last.op = "setFilename" /\ last.res = "ok") =>
       /\ AllBound
       /\ \A i \in 1..Len(Replacements) : LeafHolds(Replacements[i], last.text)
  /\ (/\ last.op = "matchSymbol"
      /\ AllBound
      /\ Compiled("**::{file.stem}")
      /\ last.id = PatternMappings["**::{file.stem}"]
      /\ CurrentFilename.val = CCLightning) =>
       /\ last.Names = <<"cocos2d", "CCLightning">> => last.res = "true"
       /\ last.Names = <<"cocos2d", "CCScheduler">> => last.res = "false"

\* setFilename has replaced CCScheduler.cpp by CCLightning.cpp, and the leaf
\* of "**::{file.stem}" now holds the new stem.
C2_SecondFilenameInstalled ==
  /\ last.op = "setFilename"
  /\ last.res = "ok"
  /\ last.prev = CCScheduler
  /\ last.text = CCLightning
  /\ Compiled("**::{file.stem}")
  /\ \E i \in 1..Len(Replacements) :
       /\ Replacements[i].kind = "Proxy"
       /\ nodes[Replacements[i].ThePattern].P = "CCLightning"

IsGlobNode(n) == n.kind \in {"LeadingGlob", "ButterflyGlob"}

\* C3 as stated: a node that consumes k names says no to every list whose
\* length is not k, or to every list shorter than k if the node is a glob.
C3_MatchArity ==
  (last.op = "matchSymbol" /\ AllBound /\ last.res = "true") =>
    IF IsGlobNode(nodes[last.id])
      THEN Len(last.Names) >= requiredCount(nodes, last.id)
      ELSE Len(last.Names) = requiredCount(nodes, last.id)

\* The leaf a one-name pattern consists of, 0 if it is not of that shape.
OnlyLeaf(id) ==
  LET n == nodes[id]
  IN IF isSinglePattern(n) THEN id
     ELSE IF n.kind \in {"SingleSequence", "Forwarding"} /\ Len(n.Patterns) = 1
       THEN n.Patterns[1]
     ELSE 0

\* C4 as stated: a Solo or Regex leaf matches a name only if the whole name
\* is the literal, or the whole name matches the expression.
C4_WholeNameOnly ==
  (last.op = "matchSymbol" /\ AllBound /\ last.res = "true"
     /\ OnlyLeaf(last.id) # 0 /\ Len(last.Names) = 1) =>
    LET leaf == nodes[OnlyLeaf(last.id)]
    IN IF leaf.kind = "Solo" THEN leaf.P = last.Names[1]
       ELSE RegexMatch_Whole(Regex(leaf.RegExp.text), last.Names[1])

\* C5 as stated: a LeadingGlob matches exactly when there are at least as
\* many names as its trailing pattern consumes and the last that many match
\* the trailing pattern; the names before them are free and may be none.
C5_LeadingGlobMatch ==
  (last.op = "matchSymbol" /\ AllBound /\ nodes[last.id].kind = "LeadingGlob") =>
    LET Trailing == nodes[last.id].Patterns[1]
        k == requiredCount(nodes, Trailing)
    IN last.res = "true" <=>
         /\ Len(last.Names) >= k
         /\ MultiMatch(nodes, Trailing, take_back(last.Names, k)) = "true"

\* The matcher holds "**::{file.stem}" as its one constructor pattern, bound
\* to CCScheduler.cpp, and match has just been asked about a constructor.
C6_Asked(Names) ==
  /\ last.op = "match"
  /\ last.SymKind = "Constructor"
  /\ last.Names = Names
  /\ AllBound
  /\ Compiled("**::{file.stem}")
  /\ CtorPatterns = {PatternMappings["**::{file.stem}"]}
  /\ CurrentFilename.val = CCScheduler

\* C6 as stated: with "**::{file.stem}" and CCScheduler.cpp the matcher
\* matches a constructor in ["cocos2d","CCScheduler"] and does not match one
\* in ["CCScheduler"] alone, the glob needing a name before the stem.
C6_GlobNeedsPrefix ==
  /\ C6_Asked(<<"cocos2d", "CCScheduler">>) => last.res = "true"
  /\ C6_Asked(<<"CCScheduler">>) => last.res = "false"

\* C6 amended: with "**::{file.stem}" and CCScheduler.cpp the matcher
\* matches a constructor in ["cocos2d","CCScheduler"] and also one in
\* ["CCScheduler"] alone: the glob takes no names as well as some; it does
\* not match when the last name is another one.
C6_GlobTakesEmptyPrefix ==
  /\ C6_Asked(<<"cocos2d", "CCScheduler">>) => last.res = "true"
  /\ C6_Asked(<<"CCScheduler">>) => last.res = "true"
  /\ C6_Asked(<<"cocos2d", "CCLightning">>) => last.res = "false"

\* match has said yes to the constructor of ["CCScheduler"].
C6_StemAloneMatched == C6_Asked(<<"CCScheduler">>) /\ last.res = "true"

\* C7 as stated: a ButterflyGlob matches exactly when there are at least as
\* many names as its two patterns consume together, the first names match
\* the leading pattern and the last names match the trailing pattern; the
\* names between them are free and may be none.
C7_ButterflyGlobMatch ==
  (last.op = "matchSymbol" /\ AllBound /\ nodes[last.id].kind = "ButterflyGlob") =>
    LET Leading  == nodes[last.id].Patterns[1]
        Trailing == nodes[last.id].Patterns[2]
        l == requiredCount(nodes, Leading)
        t == requiredCount(nodes, Trailing)
    IN last.res = "true" <=>
         /\ Len(last.Names) >= l + t
         /\ MultiMatch(nodes, Leading, take_front(last.Names, l)) = "true"
         /\ MultiMatch(nodes, Trailing, take_back(last.Names, t)) = "true"

\* matchSymbol has just been asked of the node of "[[:lower:]]+::**::{file.stem}",
\* bound to Filename.
C8_Asked(Filename, Names) ==
  /\ last.op = "matchSymbol"
  /\ last.Names = Names
  /\ AllBound
  /\ Compiled("[[:lower:]]+::**::{file.stem}")
  /\ last.id = PatternMappings["[[:lower:]]+::**::{file.stem}"]
  /\ CurrentFilename.val = Filename

\* C8: "[[:lower:]]+::**::{file.stem}" matches ["x","y","z","CCScheduler"]
\* when the filename is CCScheduler.cpp and ["cocos2d","CCLightning"] when it
\* is CCLightning.cpp; it matches neither under the other filename.
C8_ButterflyScenario ==
  /\ C8_Asked(CCScheduler, <<"x", "y", "z", "CCScheduler">>) => last.res = "true"
  /\ C8_Asked(CCLightning, <<"cocos2d", "CCLightning">>) => last.res = "true"
  /\ C8_Asked(CCLightning, <<"x", "y", "z", "CCScheduler">>) => last.res = "false"
  /\ C8_Asked(CCScheduler, <<"cocos2d", "CCLightning">>) => last.res = "false"

\* The pattern has matched ["cocos2d","CCLightning"] under CCLightning.cpp.
C8_LightningMatched ==
  /\ C8_Asked(CCLightning, <<"cocos2d", "CCLightning">>)
  /\ last.res = "true"
  /\ bound >= 1

\* C9: a compilePattern of a text that already has its node, whatever was
\* called since, returns that node, makes no node and registers no
\* replacer; a compile that makes a node files it under its text, and a
\* text never changes its node.
C9_CompileOnce ==
  /\ [](last.op = "compilePattern" =>
          /\ last.had # 0 =>
               /\ last.res = "ok"
               /\ last.id = last.had
               /\ last.before = <<Len(nodes), Len(Replacements)>>
          /\ last.res = "ok" => PatternMappings[last.text] = last.id)
  /\ [][\A Pat \in DOMAIN PatternMappings :
          Compiled(Pat) => PatternMappings'[Pat] = PatternMappings[Pat]]_vars

\* A second compilePattern of a text has come back with its node, nothing
\* made, on a matcher that holds another pattern and has a filename set.
C9_SecondCompileReturned ==
  /\ last.op = "compilePattern"
  /\ last.res = "ok"
  /\ last.had # 0
  /\ last.id = last.had
  /\ last.before = <<Len(nodes), Len(Replacements)>>
  /\ Cardinality({Pat \in DOMAIN PatternMappings : Compiled(Pat)}) >= 2
  /\ CurrentFilename.has

GlobsIn(Toks) == Cardinality({I \in 1..Len(Toks) : Toks[I].kind = "KGlob"})

Globs(Pat) == GlobsIn(LexedPatterns[Pat].toks)

EndsWithGlobIn(Toks) == Toks # <<>> /\ Toks[Len(Toks)].kind = "KGlob"

EndsWithGlob(Pat) == EndsWithGlobIn(LexedPatterns[Pat].toks)

NoNodeMade ==
  /\ last.id = 0
  /\ last.before = <<Len(nodes), Len(Replacements)>>

\* C10 as stated: compiling a pattern whose tokens hold two or more globs
\* is rejected with the "not yet supported" error and yields no node.
C10_TwoGlobsUnsupported ==
  (last.op = "compilePattern" /\ Globs(last.text) >= 2) =>
    /\ last.res = "err"
    /\ last.err = "compilePatternNGlobs unimplemented!"
    /\ NoNodeMade

\* C10 amended: compiling a pattern whose tokens hold two or more globs
\* yields no node and no replacer.  If the last token is not a glob it is
\* rejected with the "not yet supported" error; if it is, the grouping step
\* rejects it first, with an error of its own, unless the read past the last
\* token takes the process down.
C10_TwoGlobsNoNode ==
  (last.op = "compilePattern" /\ Globs(last.text) >= 2) =>
    /\ NoNodeMade
    /\ ~EndsWithGlob(last.text) =>
         last.res = "err" /\ last.err = "compilePatternNGlobs unimplemented!"
    /\ EndsWithGlob(last.text) =>
         \/ last.res = "fault"
         \/ /\ last.res = "err"
            /\ last.err \in {"glob token found at end of pattern?",
                             "sequential globs not coalesced?"}

\* "a::**::b::**::c" has been rejected as not yet supported.
C10_TwoGlobsRejected ==
  /\ last.op = "compilePattern"
  /\ last.text = "a::**::b::**::c"
  /\ Globs(last.text) = 2
  /\ last.res = "err"
  /\ last.err = "compilePatternNGlobs unimplemented!"

\* Whether Replacer::replace of Rep reports an error for filename.
Fails(Rep, filename) == ~replace(nodes, Rep, filename).ok

NodesOf(field) ==
  {PatternMappings[e.text] : e \in {e \in Range(field.items) :
                                      e.isString /\ Compiled(e.text)}}

\* loadSymbolsFromJSONFile has just succeeded on a matcher that held no node.
LoadedFresh ==
  /\ last.op = "loadSymbolsFromJSONFile"
  /\ last.res = "ok"
  /\ last.before[1] = 0

Compiles(Pat) ==
  \A ub \in UBChoices :
    compilePatternImpl([nodes |-> <<>>, Replacements |-> <<>>], Pat, ub).st = "ok"

\* A configuration whose only faults can be in its pattern texts.
WellShaped(cfg) ==
  /\ cfg.readable
  /\ cfg.root = "object"
  /\ cfg.files = OneFile
  /\ cfg.patterns.shape \in {"object", "array", "string"}

\* C14: in permissive mode a pattern of the configuration that fails to lex
\* or compile is skipped and the load goes on: when a configuration that is
\* otherwise well formed lists a pattern that fails and a pattern that
\* compiles, loadSymbolsFromJSONFile succeeds and every pattern that
\* compiles has its node in the sets, whether "patterns" is a string, an
\* array or an object with ctor/dtor/all.
C14_PermissiveSkipsBadPatterns ==
  (/\ last.op = "loadSymbolsFromJSONFile"
   /\ Permissive
   /\ last.res \in {"ok", "err"}
   /\ last.err # "config file has already been loaded"
   /\ WellShaped(last.cfg)
   /\ \E t \in Texts(last.cfg) : ~Compiles(t)
   /\ \E t \in Texts(last.cfg) : Compiles(t)) =>
    /\ last.res = "ok"
    /\ \A t \in Texts(last.cfg) :
         Compiles(t) =>
           /\ Compiled(t)
           /\ PatternMappings[t] \in CtorPatterns \cup DtorPatterns

Lexed(family) == last.op = "lex" /\ last.family = family

\* C15: lexing fails for every pattern whose only token would be Glob
\* ("**", "::**", and runs of them, which coalesce) or Anonymous ("@",
\* "::@"), so no stream the lexer emits is a lone Glob or a lone Anonymous;
\* "::@::xyz" lexes to exactly [Anonymous, Simple("xyz")].
C15_LoneGlobOrAnonymousFails ==
  Lexed("standalone") =>
    /\ (\A i \in 1..Len(last.parts) : last.parts[i] = "**") => last.res = "err"
    /\ last.parts = <<"@">> => last.res = "err"
    /\ last.res = "ok" =>
         ~(Len(last.toks) = 1 /\ last.toks[1].kind \in {"KGlob", "KAnonymous"})
    /\ last.text = "::@::xyz" =>
         /\ last.res = "ok"
         /\ last.toks = <<Token("KAnonymous", "@", FALSE),
                          Token("KSimple", "xyz", FALSE)>>

\* "::**" has been lexed and turned down for holding a glob only.
C15_LoneGlobRefused ==
  /\ Lexed("standalone")
  /\ last.text = "::**"
  /\ last.res = "err"
  /\ last.err = "must contain non-glob particle"

\* The maximal runs of "**" among the segments of a pattern.
GlobRuns(parts) ==
  Cardinality({i \in 1..Len(parts) :
                 parts[i] = "**" /\ (i = 1 \/ parts[i - 1] # "**")})

GlobTokens(toks) == {i \in 1..Len(toks) : toks[i].kind = "KGlob"}

\* C16: in every stream the lexer emits, a run "**::**::...::**" has given
\* one Glob token: the stream holds as many Glob tokens as the pattern has
\* runs, and no two of them are next to each other.
C16_GlobsCoalesce ==
  (Lexed("standalone") /\ last.res = "ok") =>
    /\ \A i \in GlobTokens(last.toks) : i + 1 \notin GlobTokens(last.toks)
    /\ Cardinality(GlobTokens(last.toks)) = GlobRuns(last.parts)

\* "**::**::xyz" has been lexed to a Glob and a Simple.
C16_RunOfTwoCoalesced ==
  /\ Lexed("standalone")
  /\ last.parts = <<"**", "**", "xyz">>
  /\ last.res = "ok"
  /\ Len(last.toks) = 2
  /\ GlobTokens(last.toks) = {1}

IsQuantifier(p) == p \in {"?", "*", "+"}
IsAtom(p) == p \in {"I", "[a-z]", "\\d", "{file.stem}"}

\* The quantifier at piece i stands where the lexer takes one: after an
\* atom, or, for "?", after a quantifier and not before another "?".
QuantifierTaken(parts, i) ==
  /\ i > 1
  /\ \/ IsAtom(parts[i - 1])
     \/ /\ parts[i] = "?"
        /\ IsQuantifier(parts[i - 1])
        /\ ~(i < Len(parts) /\ parts[i + 1] = "?")

\* What lexing a segment of those pieces comes to: it stops at the first
\* quantifier it does not take, or never ends once it meets a wildcard.
SegmentOutcome(parts) ==
  LET refused == {i \in 1..Len(parts) :
                    IsQuantifier(parts[i]) /\ ~QuantifierTaken(parts, i)}
      wild    == {i \in 1..Len(parts) : parts[i] = "."}
      stops   == refused \cup wild
      first   == CHOOSE i \in stops : \A j \in stops : i <= j
  IN IF stops = {} THEN "ok" ELSE IF first \in wild THEN "hang" ELSE "err"

Pool(c) ==
  IF c \in UpperSet THEN "A-Z"
  ELSE IF c \in LowerSet THEN "a-z"
  ELSE IF c \in DigitSet THEN "0-9"
  ELSE "none"

SamePool(X, Y) == Pool(X) # "none" /\ Pool(X) = Pool(Y)

\* C18: a class holding the range X-Y, negated or not, is lexed exactly
\* when X and Y are in the same one of the pools [A-Z], [a-z], [0-9]; a
\* range across pools, such as [0-z], [A-z] or [a-0], makes lexing fail.
C18_RangeWithinOnePool ==
  Lexed("range") =>
    /\ last.res \in {"ok", "err"}
    /\ last.res = "ok" <=> SamePool(last.parts[2], last.parts[4])
    /\ last.res = "ok" => last.toks = <<Token("KRegex", last.text, FALSE)>>

\* "[0-z]" has been lexed and turned down for its range.
C18_CrossPoolRefused ==
  /\ Lexed("range")
  /\ last.text = "[0-z]"
  /\ last.res = "err"
  /\ last.err = "invalid case range"

\* A leaf name without its last dotted suffix, and that suffix.
LastSuffixRemoved(leaf) ==
  IF rfind(leaf, ".") = 0 THEN leaf ELSE SubSeq(leaf, 1, rfind(leaf, ".") - 1)

LastSuffix(leaf) ==
  IF rfind(leaf, ".") = 0 THEN "" ELSE SubSeq(leaf, rfind(leaf, "."), Len(leaf))

\* The directory a leaf was put in, as a path of its own.
ParentOf(d) == IF d \in {"", "/"} THEN d ELSE drop_back(d, 1)

\* C19: of a filename, stem is the leaf name without its last dotted
\* suffix ("a.tar" for "dir/a.tar.gz"), ext that suffix with its dot (or
\* empty), dir the parent directory (or empty) and the empty property the
\* whole filename; so stem followed by ext is the leaf name, for every
\* filename.
C19_FileProperties ==
  last.op = "getPropertyRaw" =>
    LET leaf == last.parts[2]
    IN /\ last.prop = kStem => last.res = "ok" /\ last.prev = LastSuffixRemoved(leaf)
       /\ last.prop = kExt => last.res = "ok" /\ last.prev = LastSuffix(leaf)
       /\ last.prop = kDir => last.res = "ok" /\ last.prev = ParentOf(last.parts[1])
       /\ last.prop = "" => last.res = "ok" /\ last.prev = last.text
       /\ getPropertyRaw(last.text, kStem).val \o getPropertyRaw(last.text, kExt).val
            = leaf

\* The replacement bodies among the pieces of a segment, each once, in the
\* order they first occur.
RECURSIVE DistinctBodies(_, _)
DistinctBodies(parts, acc) ==
  IF parts = <<>> THEN acc
  ELSE IF CharAt(Head(parts), 1) # "{" \/ Head(parts) \in Range(acc)
    THEN DistinctBodies(Tail(parts), acc)
  ELSE DistinctBodies(Tail(parts), Append(acc, Head(parts)))

\* The member a body "{obj.member}" names, "" for "{obj}".
MemberOf(body) == split(drop_back(drop_front(body, 1), 1), ".")[2]

HeadTokens(toks) ==
  {i \in 1..Len(toks) : toks[i].kind \in {"KSimpleFmt", "KRegexFmt"}}

\* C20: in every stream the lexer emits, a compound head (SimpleFmt or
\* RegexFmt) has a trailing count from 1 to 7 that is the number of distinct
\* replacement bodies of its segment, and is followed by exactly that many
\* argument tokens, in the order the bodies first occur; a segment that
\* needs more than 7 arguments is rejected, never emitted with a wrapped or
\* truncated count.
C20_TrailingArguments ==
  Lexed("replacement") =>
    LET bodies == DistinctBodies(last.parts, <<>>)
        n      == Len(bodies)
        toks   == last.toks
    IN /\ n > kMaxTrailing => last.res = "err"
       /\ last.res = "ok" =>
            \A i \in HeadTokens(toks) :
              /\ toks[i].trailing \in 1..kMaxTrailing
              /\ toks[i].trailing = n
              /\ Len(toks) = i + n
              /\ \A j \in 1..n :
                   /\ toks[i + j].kind = "KLateBind"
                   /\ lower(toks[i + j].str) = lower(MemberOf(bodies[j]))

\* C21: compiling a token vector that holds an empty group, or a glob with
\* no group after it, fails with an error and makes no node, and no token
\* past the end of the vector is read.  (splitIntoGroups steps to the token
\* after a glob and reads its kind before it compares the index with the
\* size; a read past the end may take the process down.)
C21_GlobAtEndFailsCleanly ==
  (last.op = "compilePattern" /\ LexedPatterns[last.text].st = "ok"
     /\ EndsWithGlob(last.text)) =>
    /\ last.res = "err"
    /\ NoNodeMade

\* C22: match is infallible: in every state the matcher can reach, also when
\* patterns with {file.*} holes are loaded and setFilename has not run, and
\* for every features value, match returns true or false and does nothing
\* else.  (RegexPattern::match dereferences its optional regex, which a
\* regex-with-replacement leaf holds absent until setFilename fills it.)
C22_MatchInfallible ==
  last.op = "match" => last.res \in {"true", "false"}

\* The symbol the latest classify was given is one the Microsoft demangler
\* parsed as a function whose name ends in a structor identifier linked to
\* its class.
C23_Asked ==
  /\ last.op = "classify"
  /\ last.family = "msvc"
  /\ last.out # "null"
  /\ last.Sym.parse = "ok"
  /\ last.Sym.AST.kind = "FunctionSymbol"
  /\ last.Sym.AST.Components[Len(last.Sym.AST.Components)].kind = "StructorIdentifier"
  /\ last.Sym.AST.Components[Len(last.Sym.AST.Components)].Class # <<>>

\* C23: the Microsoft back end classifies a function symbol whose terminal
\* identifier is a structor identifier linked to a class node as a
\* destructor when the identifier's is-destructor flag is set and as a
\* constructor when it is not, and takes the base name from the class node.
C23_StructorKindFromFlag ==
  C23_Asked =>
    LET SID == last.Sym.AST.Components[Len(last.Sym.AST.Components)]
    IN /\ last.res = IF SID.IsDestructor THEN "Destructor" ELSE "Constructor"
       /\ last.Feats.SymKind = last.res
       /\ last.Feats.HasBaseName
       /\ last.Feats.NestedNames[Len(last.Feats.NestedNames)] = SID.Class[1].Name

\* C30: for every mangled input and both back ends the kind classify returns
\* is the kind it stored in the output features, and a symbol whose features
\* say constructor or destructor is never returned as Invalid.  (The Itanium
\* back end fills the features of a constructor or destructor in and then
\* returns Invalid.)
C30_ReturnedKindIsStoredKind ==
  (last.op = "classify" /\ last.out # "null") =>
    /\ last.res = last.Feats.SymKind
    /\ last.Feats.SymKind \in {"Constructor", "Destructor"}
         => last.res \in {"Constructor", "Destructor"}

\* The texts of the tokens, "::" between neighbours.
TokenTexts(toks) == Join([i \in 1..Len(toks) |-> toks[i].str], "::")

\* The latest call lexed a pattern of the round-trip family, accepted it,
\* and no token of a replacement came out.
C24_Asked ==
  /\ Lexed("roundtrip")
  /\ last.res = "ok"
  /\ \A i \in 1..Len(last.toks) :
       /\ ~last.toks[i].grouped
       /\ last.toks[i].kind \in {"KSimple", "KRegex", "KGlob", "KAnonymous"}

\* The class each escape stands for.
EscapeTexts ==
  [a |-> "[A-Za-z]", d |-> "[0-9]", w |-> "[A-Za-z0-9_]", i |-> "[A-Za-z0-9_$]"]

RECURSIVE ExpandEscapes(_)
ExpandEscapes(s) ==
  IF s = "" THEN ""
  ELSE IF Len(s) >= 2 /\ CharAt(s, 1) = "\\" /\ CharAt(s, 2) \in DOMAIN EscapeTexts
    THEN EscapeTexts[CharAt(s, 2)] \o ExpandEscapes(SubSeq(s, 3, Len(s)))
  ELSE CharAt(s, 1) \o ExpandEscapes(Tail(s))

\* A segment without the whitespace and the slashes around it, its escapes
\* written out.
SegmentNormalForm(s) ==
  LET unslashed(t) ==
        IF Len(t) >= 2 /\ CharAt(t, 1) = "/" /\ CharAt(t, Len(t)) = "/"
          THEN SubSeq(t, 2, Len(t) - 1) ELSE t
  IN ExpandEscapes(unslashed(trim(s)))

\* The segments with each run of globs cut down to one glob.
RECURSIVE CoalesceGlobs(_)
CoalesceGlobs(parts) ==
  IF Len(parts) < 2 THEN parts
  ELSE IF parts[1] = "**" /\ parts[2] = "**" THEN CoalesceGlobs(Tail(parts))
  ELSE <<parts[1]>> \o CoalesceGlobs(Tail(parts))

\* C24 as stated: for every pattern the lexer accepts that holds no
\* replacement, the texts of the tokens joined by "::" are the pattern
\* again, once the whitespace around its segments (and a leading "::") is
\* taken away.
C24_RoundTrip ==
  C24_Asked =>
    TokenTexts(last.toks)
      = Join([i \in 1..Len(last.parts) |-> trim(last.parts[i])], "::")

\* C24 amended: for every such pattern the joined token texts are the
\* pattern with the whitespace around its segments and a leading "::" taken
\* away, every run of "**" segments cut down to one "**", the slashes around
\* a "/.../" segment removed, and each escape \a \d \w \i replaced by the
\* class it stands for.  A pattern with a parenthesised segment is not
\* accepted.
C24_RoundTripToNormalForm ==
  /\ C24_Asked =>
       TokenTexts(last.toks)
         = Join(CoalesceGlobs([i \in 1..Len(last.parts) |->
                                 SegmentNormalForm(last.parts[i])]), "::")
  /\ (Lexed("roundtrip") /\ \E i \in 1..Len(last.parts) : last.parts[i] = "(a)")
       => last.res = "err"

\* "/y+/::a\d:: y " has been lexed to y+, a[0-9] and y.
C24_SlashedAndEscapedLexed ==
  /\ C24_Asked
  /\ last.parts = <<"/y+/", "a\\d", " y ">>
  /\ TokenTexts(last.toks) = "y+::a[0-9]::y"

\* The tokens of Pat hold a This token.
HoldsThis(Pat) ==
  \E I \in 1..Len(LexedPatterns[Pat].toks) : LexedPatterns[Pat].toks[I].kind = "KThis"

\* C25: lexed without a file-property cache, a standalone {this.member}
\* segment gives a This token, and the compile of a token stream that holds
\* a This token is rejected with an error: no node is made and the process
\* goes on.  (makeSingleSequence has no case for a This token: it runs into
\* llvm_unreachable.)
C25_ThisTokenRejected ==
  /\ LexedPatterns["{this.stem}"].st = "ok"
  /\ HoldsThis("{this.stem}")
  /\ (last.op = "compilePattern" /\ LexedPatterns[last.text].st = "ok"
        /\ HoldsThis(last.text)) =>
       /\ last.res = "err"
       /\ NoNodeMade

\* C26: lexing terminates for every pattern: whatever character a round of
\* the segment loop or of the compound lexer's loop meets, the wildcard "."
\* included, the round consumes a character or returns an error, so every
\* call of the lexer comes back, with tokens or with an error.  (The round
\* that meets a wildcard appends to the buffer and leaves the read position
\* where it was.)
C26_LexingTerminates ==
  /\ status # "hang"
  /\ last.op = "lex" => last.res \in {"ok", "err"}

\* C27: a glob node whose glob-free side is an AnySequence of several
\* groups slices the names by the number of scope segments that side
\* requires, not by the number of its children: a LeadingGlob over an
\* AnySequence matches exactly the lists whose last names, as many as the
\* AnySequence requires, match it, and "**::a::b::I{file.stem}", bound to
\* CCScheduler.cpp, matches ["ns","a","b","ICCScheduler"].
C27_GlobSlicesByRequiredCount ==
  (last.op = "matchSymbol" /\ AllBound /\ nodes[last.id].kind = "LeadingGlob"
     /\ nodes[nodes[last.id].Patterns[1]].kind = "AnySequence") =>
    LET Trailing == nodes[last.id].Patterns[1]
        k == requiredCount(nodes, Trailing)
    IN /\ last.res = "true" <=>
            /\ Len(last.Names) >= k
            /\ MultiMatch(nodes, Trailing, take_back(last.Names, k)) = "true"
       /\ (/\ Compiled("**::a::b::I{file.stem}")
           /\ last.id = PatternMappings["**::a::b::I{file.stem}"]
           /\ CurrentFilename.val = CCScheduler
           /\ last.Names = <<"ns", "a", "b", "ICCScheduler">>) => last.res = "true"

\* C28: a pattern with {file.*} holes that is compiled after setFilename(f)
\* is bound to f: with no setFilename in between, a match after that compile
\* gives what the pattern gives with every late-bound leaf holding the text
\* made from f's properties, never what a placeholder gives.  (compilePattern
\* registers the replacer and leaves the leaf as it was constructed; only
\* setFilename runs the replacers.)
C28_CompileBindsToCurrentFilename ==
  (last.op = "matchSymbol" /\ CurrentFilename.has) =>
    LET rebound(r) == last.res = matchSymbol(r.nodes, last.id, last.Names)
    IN rebound(setFilenameFrom(nodes, Replacements, 1, CurrentFilename.val, Permissive))

\* C29: a loadSymbolsFromJSONFile that returns an error, as when the n-th
\* pattern of the configuration does not compile in strict mode, leaves the
\* constructor and the destructor set as they were before the call, no
\* pattern of the failed configuration in either, and records no
\* configuration filename.  (The array form adds each pattern to both sets
\* as soon as it has compiled.)
C29_FailedLoadChangesNoSet ==
  [][(last'.op = "loadSymbolsFromJSONFile" /\ last'.res = "err") =>
       /\ CtorPatterns' = CtorPatterns
       /\ DtorPatterns' = DtorPatterns
       /\ ConfigFilename' = ConfigFilename]_vars

====
